---- MODULE Spec2Model ----
(***************************************************************************)
(* Verification model of the insurance-claim assistant.                    *)
(*                                                                         *)
(*   Spec      the analysis pipeline of crew.py (run_claim_analysis,       *)
(*             create_claim_assistant_crew, the sequential kickoff of the  *)
(*             six tasks) as it is called by app.py's render_step_3 or     *)
(*             directly through the core entry point.                      *)
(*   SpecLoad  threads making their first calls to                         *)
(*             tools/denial_codes.py load_denial_codes.                    *)
(*                                                                         *)
(* Texts are abstract: a text is the pair (id, len), "the first len        *)
(* characters of source text id", so that a Python slice t[:n] is          *)
(* (id, min(len, n)).  A prompt is the sequence of the segments its        *)
(* f-string is assembled from: template literals and embedded values.      *)
(* The output of a stage is the token (run, task): whatever the model      *)
(* returned for that task in that run.                                     *)
(***************************************************************************)
EXTENDS Integers, Sequences, FiniteSets, TLC

VARIABLES
    MISTRAL_API_KEY,      \* config.MISTRAL_API_KEY is set (truthy)
    caller,               \* "ui": app.py render_step_3; "direct": the core entry point
    analysis_result,      \* st.session_state.analysis_result
    st_error,             \* the error the UI shows (st.error), "" when none
    run_no,               \* number of invocations of run_claim_analysis so far
    pc,                   \* position of the current invocation
    args,                 \* arguments of the current invocation
    crew,                 \* the Crew built by create_claim_assistant_crew
    task_index,           \* index in crew.tasks of the task kickoff executes next
    started,              \* agents of the tasks started in this run, in order
    prompts,              \* the prompt each started task was executed with
    stage_outputs,        \* outputs of the tasks completed in this run, in order
    failed_at,            \* index of the task whose model invocation failed, 0 if none
    raised,               \* exceptions delivered to the caller by this run
    result,               \* value returned by run_claim_analysis
    outcomes,             \* outcome of each finished run, in order
    denial_codes_cache,   \* tools/denial_codes.py _denial_codes_cache (0 is None)
    file_exists,          \* DENIAL_CODES_FILE.exists()
    tpc,                  \* position of each thread in load_denial_codes
    returned,             \* table object each thread got back (0: not yet)
    file_reads,           \* number of json.load(f) of the backing file
    cache_writes,         \* number of assignments to _denial_codes_cache
    hash_seed,            \* PYTHONHASHSEED of the process: fixes the iteration order of sets
    knowledge,            \* the table load_denial_codes returns (contents of the JSON file)
    codes_in,             \* analyze_denial_codes: the denial_codes argument
    analysis,             \* analyze_denial_codes: the dictionary returned (<<>>: not called)
    ext_text,             \* extract_claim_info: the text argument
    ai,                   \* how the model path behaves during the call
    extract_raised,       \* extract_claim_info raised instead of returning
    claim_info,           \* extract_claim_info: the dictionary returned (<<>>: not called)
    full_result,          \* separate_letter_and_next_steps: the full_result argument
    separated,            \* the tuple it returned (<<>>: not called)
    session_state,        \* app.py: st.session_state, a dictionary of the keys that are set
    denial_upload,        \* value of the file uploader with key "denial_upload"
    policy_upload,        \* value of the file uploader with key "policy_upload"
    manual_text,          \* value of the text area of step 1
    rerun_requested,      \* a script run is due: the page was opened or st.rerun() was called
    ui_event,             \* the interaction that started the last script run
    pipeline_call         \* arguments of the run_claim_analysis call of the last script
                          \* run (<<>>: it made none)

pipeVars == <<MISTRAL_API_KEY, caller, analysis_result, st_error, run_no, pc, args,
              crew, task_index, started, prompts, stage_outputs, failed_at,
              raised, result, outcomes>>
loadVars == <<denial_codes_cache, file_exists, tpc, returned, file_reads, cache_writes>>
anaVars == <<hash_seed, knowledge, codes_in, analysis>>
extVars == <<ext_text, ai, extract_raised, claim_info>>
splitVars == <<full_result, separated>>
uiVars == <<session_state, denial_upload, policy_upload, manual_text, rerun_requested,
            ui_event, pipeline_call>>
auxVars == <<anaVars, extVars, splitVars, uiVars>>
vars == <<pipeVars, loadVars, auxVars>>

-----------------------------------------------------------------------------
(* Bounds *)

MaxRuns == 2
NumThreads == 3

Min(a, b) == IF a < b THEN a ELSE b

-----------------------------------------------------------------------------
(* Texts and Python values *)

Text(i, n) == [id |-> i, len |-> n]
NoneText == Text(0, 0 - 1)
EmptyText == Text(0, 0)

\* Python truthiness of an optional string: None and "" are falsy
Truthy(t) == t.len > 0

\* Python t[:n]
Slice(t, n) == Text(t.id, Min(t.len, n))

\* A piece of an f-string: template text, or an interpolated value
Lit(s) == [src |-> "literal", val |-> s]
Emb(src, v) == [src |-> src, val |-> v]

Fields == <<"name", "address", "phone", "email">>

\* str(dict): the (key, value) pairs of the mapping, one per key it holds
RECURSIVE DictReprFrom(_, _)
DictReprFrom(d, i) ==
    IF i > Len(Fields) THEN <<>>
    ELSE (IF Fields[i] \in DOMAIN d THEN << <<Fields[i], d[Fields[i]]>> >> ELSE <<>>)
         \o DictReprFrom(d, i + 1)

DictRepr(d) == DictReprFrom(d, 1)

-----------------------------------------------------------------------------
(* Inputs *)

PolicyCap == 3000
HelperPolicyCap == 5000

Documents == {Text(1, 800), Text(2, 9000)}
Policies == {Text(3, 100), Text(3, 3000), Text(3, 3001), Text(3, 5001)}
CodeLists == {<<>>, <<"PED-001">>, <<"PED-001", "PA-001", "UNKNOWN-999">>}

EmptyDict == [k \in {} |-> ""]
FullDict == [k \in {"name", "address", "phone", "email"} |->
                CASE k = "name" -> "Asha Rao"
                  [] k = "address" -> "12 MG Road"
                  [] k = "phone" -> "98450"
                  [] k = "email" -> "asha@example.in"]
BlankDict == [k \in {"name", "address", "phone", "email"} |-> ""]
NameDict == [k \in {"name"} |-> "Asha Rao"]

\* patient_info: given |-> FALSE is the default None
NoPatientInfo == [given |-> FALSE, dict |-> EmptyDict]
PatientInfo(d) == [given |-> TRUE, dict |-> d]

\* what render_step_3 passes: session_state.document_text (non-empty, checked by
\* the Analyze button), session_state.denial_codes, session_state.get("policy_text")
\* (set only to a non-empty text) and the four-key patient_info of render_step_2
UIArgs ==
    [document_text : Documents,
     denial_codes : CodeLists,
     policy_text : {NoneText} \cup Policies,
     patient_info : {PatientInfo(FullDict), PatientInfo(BlankDict)}]

\* what the signature of run_claim_analysis admits: denial_codes, policy_text and
\* patient_info default to None, which no call of the UI ever passes
DirectArgs ==
    [document_text : Documents,
     denial_codes : CodeLists,
     policy_text : {NoneText, EmptyText} \cup Policies,
     patient_info : {NoPatientInfo, PatientInfo(EmptyDict), PatientInfo(NameDict),
                     PatientInfo(FullDict)}]

NoArgs == [document_text |-> EmptyText, denial_codes |-> <<>>,
           policy_text |-> NoneText, patient_info |-> NoPatientInfo]

-----------------------------------------------------------------------------
(* crew.py: task definitions of create_claim_assistant_crew *)

\* context |-> NotSpecified: the Task was built without a context argument
NotSpecified == [specified |-> FALSE, tasks |-> <<>>]
Context(ts) == [specified |-> TRUE, tasks |-> ts]

Task(n, ag, desc, ctx) == [name |-> n, agent |-> ag, description |-> desc, context |-> ctx]

\* format_denial_analysis_report(analyze_denial_codes(codes)), kept symbolic
Report(codes) == [fn |-> "format_denial_analysis_report", codes |-> codes]

denial_analysis(a) ==
    IF a.denial_codes # <<>> THEN Report(a.denial_codes) ELSE EmptyText

patient_info_or_empty(a) ==
    IF a.patient_info.given THEN a.patient_info.dict ELSE EmptyDict

create_document_analysis_task(document_text) ==
    Task("task1", "document_analyzer",
         << Lit("Analyze the following insurance document ... DOCUMENT TEXT:"),
            Emb("document_text", document_text),
            Lit("Extract and structure: ...") >>,
         NotSpecified)

task1(a) == create_document_analysis_task(a.document_text)

task2(a) ==
    Task("task2", "policy_expert",
         << Lit("Analyze the claim for coverage ... Policy text (if available): "),
            IF Truthy(a.policy_text)
                THEN Emb("policy_text", Slice(a.policy_text, PolicyCap))
                ELSE Lit("Not provided"),
            Lit("Determine coverage expectations and identify any insurer errors.") >>,
         Context(<<"task1">>))

task3(a) ==
    Task("task3", "denial_reviewer",
         << Lit("Review the denial validity ... Denial code analysis:"),
            Emb("denial_analysis", denial_analysis(a)),
            Lit("Determine if the denial should be appealed ...") >>,
         Context(<<"task1", "task2">>))

\* task4 as it would be if it also embedded the raw document
task4_with_document(a) ==
    Task("task4", "appeal_strategist",
         << Lit("Develop a comprehensive appeal strategy based on all previous analysis. ..."),
            Emb("document_text", Slice(a.document_text, PolicyCap)) >>,
         Context(<<"task1", "task2", "task3">>))

task4(a) ==
    Task("task4", "appeal_strategist",
         << Lit("Develop a comprehensive appeal strategy based on all previous analysis. ...") >>,
         Context(<<"task1", "task2", "task3">>))

\* task5 as it would be if its context named the denial review, not the strategy
task5_wrong_context(a) ==
    Task("task5", "letter_writer",
         << Lit("Write a professional appeal letter using the strategy. Patient information:"),
            Emb("patient_info", DictRepr(patient_info_or_empty(a))),
            Lit("Create a complete, ready-to-send appeal letter.") >>,
         Context(<<"task1", "task3">>))

task5(a) ==
    Task("task5", "letter_writer",
         << Lit("Write a professional appeal letter using the strategy. Patient information:"),
            Emb("patient_info", DictRepr(patient_info_or_empty(a))),
            Lit("Create a complete, ready-to-send appeal letter.") >>,
         Context(<<"task1", "task4">>))

task6(a) ==
    Task("task6", "quality_reviewer",
         << Lit("Review and finalize the appeal letter. ...") >>,
         Context(<<"task1", "task5">>))

\* the task list as it would be with two tasks exchanged
CrewTasks_reordered(a) == <<task1(a), task3(a), task2(a), task4(a), task5(a), task6(a)>>

\* Crew(agents=[...], tasks=[task1 .. task6], process=Process.sequential)
CrewTasks(a) == <<task1(a), task2(a), task3(a), task4(a), task5(a), task6(a)>>

create_claim_assistant_crew(a) ==
    [tasks |-> CrewTasks(a),
     process |-> "sequential",
     context |-> [document_text |-> a.document_text,
                  denial_codes |-> a.denial_codes,
                  denial_analysis |-> denial_analysis(a),
                  policy_text |-> a.policy_text,
                  patient_info |-> patient_info_or_empty(a)]]

NoCrew == [tasks |-> <<>>, process |-> "sequential",
           context |-> [document_text |-> EmptyText, denial_codes |-> <<>>,
                        denial_analysis |-> EmptyText, policy_text |-> NoneText,
                        patient_info |-> EmptyDict]]

-----------------------------------------------------------------------------
(* crew.py: crew.kickoff() of the sequential process, and run_claim_analysis *)

\* the output of task t in run r: whatever the model returned there
Output(r, t) == [run |-> r, task |-> t.name, agent |-> t.agent]
None == [run |-> 0, task |-> "None", agent |-> "None"]

\* the outputs, among those produced so far, of the tasks named in ts
RECURSIVE OutputsOf(_, _)
OutputsOf(ts, outs) ==
    IF ts = <<>> THEN <<>>
    ELSE SelectSeq(outs, LAMBDA o : o.task = Head(ts)) \o OutputsOf(Tail(ts), outs)

\* the context a task is executed with: the outputs of its context tasks, or,
\* for a task built without context, every output produced so far
TaskContext(t, outs) ==
    IF t.context.specified THEN OutputsOf(t.context.tasks, outs) ELSE outs

\* the prompt the task's agent is invoked with
TaskPrompt(t, outs) ==
    [task |-> t.name, agent |-> t.agent,
     description |-> t.description,
     context |-> TaskContext(t, outs)]

\* a kickoff that would pick up the tasks and outputs a failed run left behind
kickoff_resume ==
    IF pc = "failed" /\ failed_at > 0
        THEN [task_index |-> failed_at, task_outputs |-> stage_outputs]
        ELSE [task_index |-> 1, task_outputs |-> <<>>]

\* crew.kickoff() starts at the first task with no task output
kickoff == [task_index |-> 1, task_outputs |-> <<>>]

\* a CrewOutput that would carry the letter draft instead of the reviewed letter
CrewOutput_draft(outs) == [raw |-> outs[Len(outs) - 1], tasks_output |-> outs]

\* the CrewOutput of a finished kickoff, and its str()
CrewOutput(outs) == [raw |-> outs[Len(outs)], tasks_output |-> outs]
NoCrewOutput == [raw |-> None, tasks_output |-> <<>>]
Str(co) == co.raw

\* a kickoff that would swallow the failure and go on with the next task
OnTaskError_swallow(i) == [pc |-> "kickoff", task_index |-> i + 1]

\* a failed model invocation is not caught by kickoff: it propagates
OnTaskError(i) == [pc |-> "raising", task_index |-> i]

\* run_claim_analysis(document_text, denial_codes, policy_text, patient_info)
run_claim_analysis(a) ==
    /\ run_no' = run_no + 1
    /\ args' = a
    /\ crew' = create_claim_assistant_crew(a)
    /\ task_index' = kickoff.task_index
    /\ stage_outputs' = kickoff.task_outputs
    /\ started' = <<>>
    /\ prompts' = <<>>
    /\ failed_at' = 0
    /\ raised' = 0
    /\ result' = NoCrewOutput
    /\ pc' = "kickoff"

\* app.py main(): without an API key the page shows an error and renders no step
MainNoKey ==
    /\ caller = "ui"
    /\ ~MISTRAL_API_KEY
    /\ st_error' = "Mistral API Key not configured!"
    /\ UNCHANGED <<MISTRAL_API_KEY, caller, analysis_result, run_no, pc, args, crew,
                   task_index, started, prompts, stage_outputs, failed_at, raised,
                   result, outcomes>>
    /\ UNCHANGED <<loadVars, auxVars>>

\* app.py render_step_3, first branch: no result yet, so the pipeline is run
RenderStep3 ==
    /\ caller = "ui"
    /\ MISTRAL_API_KEY
    /\ analysis_result = None
    /\ pc \in {"idle", "failed"}
    /\ run_no < MaxRuns
    /\ \E a \in UIArgs : run_claim_analysis(a)
    /\ UNCHANGED <<MISTRAL_API_KEY, caller, analysis_result, st_error, outcomes>>
    /\ UNCHANGED <<loadVars, auxVars>>

\* a caller of the core entry point other than the UI
DirectCall ==
    /\ caller = "direct"
    /\ pc \in {"idle", "done", "failed"}
    /\ run_no < MaxRuns
    /\ \E a \in DirectArgs : run_claim_analysis(a)
    /\ UNCHANGED <<MISTRAL_API_KEY, caller, analysis_result, st_error, outcomes>>
    /\ UNCHANGED <<loadVars, auxVars>>

\* kickoff takes the next task of crew.tasks and invokes its agent
StartTask ==
    /\ pc = "kickoff"
    /\ task_index <= Len(crew.tasks)
    /\ LET t == crew.tasks[task_index] IN
        /\ started' = Append(started, t.agent)
        /\ prompts' = Append(prompts, TaskPrompt(t, stage_outputs))
    /\ pc' = "invoke"
    /\ UNCHANGED <<MISTRAL_API_KEY, caller, analysis_result, st_error, run_no, args,
                   crew, task_index, stage_outputs, failed_at, raised, result, outcomes>>
    /\ UNCHANGED <<loadVars, auxVars>>

\* a record of outputs that keeps only the latest one
task_outputs_append_latest_only(task_outputs, output) == <<output>>

\* the sequential process appends the output of the finished task
task_outputs_append(task_outputs, output) == Append(task_outputs, output)

\* the model invocation returns: the task's output is recorded
TaskSucceeds ==
    /\ pc = "invoke"
    /\ MISTRAL_API_KEY
    /\ stage_outputs' = task_outputs_append(stage_outputs,
                                            Output(run_no, crew.tasks[task_index]))
    /\ task_index' = task_index + 1
    /\ pc' = IF task_index = Len(crew.tasks) THEN "returning" ELSE "kickoff"
    /\ UNCHANGED <<MISTRAL_API_KEY, caller, analysis_result, st_error, run_no, args,
                   crew, started, prompts, failed_at, raised, result, outcomes>>
    /\ UNCHANGED <<loadVars, auxVars>>

\* the model invocation fails (timeout, transport error, rejected credential)
TaskFails ==
    /\ pc = "invoke"
    /\ failed_at' = task_index
    /\ pc' = OnTaskError(task_index).pc
    /\ task_index' = OnTaskError(task_index).task_index
    /\ UNCHANGED <<MISTRAL_API_KEY, caller, analysis_result, st_error, run_no, args,
                   crew, started, prompts, stage_outputs, raised, result, outcomes>>
    /\ UNCHANGED <<loadVars, auxVars>>

\* result = crew.kickoff(); return result -- and, in the UI,
\* st.session_state.analysis_result = str(result)
Return ==
    /\ pc = "returning"
    /\ result' = CrewOutput(stage_outputs)
    /\ analysis_result' = IF caller = "ui" THEN Str(result') ELSE analysis_result
    /\ outcomes' = Append(outcomes, "ok")
    /\ pc' = "done"
    /\ UNCHANGED <<MISTRAL_API_KEY, caller, st_error, run_no, args, crew, task_index,
                   started, prompts, stage_outputs, failed_at, raised>>
    /\ UNCHANGED <<loadVars, auxVars>>

\* the exception leaves run_claim_analysis; render_step_3 catches it and shows it
Except ==
    /\ pc = "raising"
    /\ raised' = raised + 1
    /\ st_error' = IF caller = "ui" THEN "Error during analysis" ELSE st_error
    /\ outcomes' = Append(outcomes, "failed")
    /\ pc' = "failed"
    /\ UNCHANGED <<MISTRAL_API_KEY, caller, analysis_result, run_no, args, crew,
                   task_index, started, prompts, stage_outputs, failed_at, result>>
    /\ UNCHANGED <<loadVars, auxVars>>

\* the analyzer has not been called
AnalyzeIdle ==
    /\ hash_seed = 1
    /\ knowledge = <<>>
    /\ codes_in = <<>>
    /\ analysis = <<>>

\* the field extractor has not been called
ExtractIdle ==
    /\ ext_text = <<>>
    /\ ai = <<>>
    /\ extract_raised = FALSE
    /\ claim_info = <<>>

\* the splitter has not been called
SplitIdle ==
    /\ full_result = <<>>
    /\ separated = <<>>

\* no page of the web UI has been opened
UIIdle ==
    /\ session_state = <<>>
    /\ denial_upload = <<>>
    /\ policy_upload = <<>>
    /\ manual_text = <<>>
    /\ rerun_requested = FALSE
    /\ ui_event = ""
    /\ pipeline_call = <<>>

AuxIdle == AnalyzeIdle /\ ExtractIdle /\ SplitIdle /\ UIIdle

LoadIdle ==
    /\ denial_codes_cache = 0
    /\ file_exists = TRUE
    /\ tpc = [t \in 1..NumThreads |-> "idle"]
    /\ returned = [t \in 1..NumThreads |-> 0]
    /\ file_reads = 0
    /\ cache_writes = 0

Init ==
    /\ MISTRAL_API_KEY \in BOOLEAN
    /\ caller \in {"ui", "direct"}
    /\ analysis_result = None
    /\ st_error = ""
    /\ run_no = 0
    /\ pc = "idle"
    /\ args = NoArgs
    /\ crew = NoCrew
    /\ task_index = 0
    /\ started = <<>>
    /\ prompts = <<>>
    /\ stage_outputs = <<>>
    /\ failed_at = 0
    /\ raised = 0
    /\ result = NoCrewOutput
    /\ outcomes = <<>>
    /\ LoadIdle
    /\ AuxIdle

Next ==
    \/ MainNoKey
    \/ RenderStep3
    \/ DirectCall
    \/ StartTask
    \/ TaskSucceeds
    \/ TaskFails
    \/ Return
    \/ Except

Spec == Init /\ [][Next]_vars

-----------------------------------------------------------------------------
(* tools/denial_codes.py: load_denial_codes called by several threads       *)
(* (Streamlit runs every session's script in a thread of one process).     *)
(* A table object is identified by the thread that built it.               *)

Threads == 1..NumThreads

PipelineIdle ==
    /\ MISTRAL_API_KEY = TRUE
    /\ caller = "ui"
    /\ analysis_result = None
    /\ st_error = ""
    /\ run_no = 0
    /\ pc = "idle"
    /\ args = NoArgs
    /\ crew = NoCrew
    /\ task_index = 0
    /\ started = <<>>
    /\ prompts = <<>>
    /\ stage_outputs = <<>>
    /\ failed_at = 0
    /\ raised = 0
    /\ result = NoCrewOutput
    /\ outcomes = <<>>

\* a thread enters load_denial_codes
LoadCall(t) ==
    /\ tpc[t] = "idle"
    /\ tpc' = [tpc EXCEPT ![t] = "check"]
    /\ UNCHANGED <<denial_codes_cache, file_exists, returned, file_reads, cache_writes>>
    /\ UNCHANGED <<pipeVars, auxVars>>

\* if _denial_codes_cache is not None: return _denial_codes_cache
LoadCheck(t) ==
    /\ tpc[t] = "check"
    /\ IF denial_codes_cache # 0
          THEN /\ returned' = [returned EXCEPT ![t] = denial_codes_cache]
               /\ tpc' = [tpc EXCEPT ![t] = "done"]
          ELSE /\ tpc' = [tpc EXCEPT ![t] = "exists"]
               /\ UNCHANGED returned
    /\ UNCHANGED <<denial_codes_cache, file_exists, file_reads, cache_writes>>
    /\ UNCHANGED <<pipeVars, auxVars>>

\* if DENIAL_CODES_FILE.exists():
LoadExists(t) ==
    /\ tpc[t] = "exists"
    /\ tpc' = [tpc EXCEPT ![t] = IF file_exists THEN "read" ELSE "store"]
    /\ UNCHANGED <<denial_codes_cache, file_exists, returned, file_reads, cache_writes>>
    /\ UNCHANGED <<pipeVars, auxVars>>

\* with open(DENIAL_CODES_FILE) as f: json.load(f)
LoadRead(t) ==
    /\ tpc[t] = "read"
    /\ file_reads' = file_reads + 1
    /\ tpc' = [tpc EXCEPT ![t] = "store"]
    /\ UNCHANGED <<denial_codes_cache, file_exists, returned, cache_writes>>
    /\ UNCHANGED <<pipeVars, auxVars>>

\* _denial_codes_cache = <the table this thread built>
LoadStore(t) ==
    /\ tpc[t] = "store"
    /\ denial_codes_cache' = t
    /\ cache_writes' = cache_writes + 1
    /\ tpc' = [tpc EXCEPT ![t] = "return"]
    /\ UNCHANGED <<file_exists, returned, file_reads>>
    /\ UNCHANGED <<pipeVars, auxVars>>

\* return _denial_codes_cache
LoadReturn(t) ==
    /\ tpc[t] = "return"
    /\ returned' = [returned EXCEPT ![t] = denial_codes_cache]
    /\ tpc' = [tpc EXCEPT ![t] = "done"]
    /\ UNCHANGED <<denial_codes_cache, file_exists, file_reads, cache_writes>>
    /\ UNCHANGED <<pipeVars, auxVars>>

InitLoad ==
    /\ PipelineIdle
    /\ denial_codes_cache = 0
    /\ file_exists \in BOOLEAN
    /\ tpc = [t \in Threads |-> "idle"]
    /\ returned = [t \in Threads |-> 0]
    /\ file_reads = 0
    /\ cache_writes = 0
    /\ AuxIdle

NextLoad ==
    \E t \in Threads :
        \/ LoadCall(t)
        \/ LoadCheck(t)
        \/ LoadExists(t)
        \/ LoadRead(t)
        \/ LoadStore(t)
        \/ LoadReturn(t)

SpecLoad == InitLoad /\ [][NextLoad]_vars

-----------------------------------------------------------------------------
(* Properties of the analysis pipeline (Spec) *)

\* DocumentAnalysis, PolicyAnalysis, DenialReview, AppealStrategy, LetterDrafting,
\* QualityReview, each named by the agent that carries it out
StageOrder == <<"document_analyzer", "policy_expert", "denial_reviewer",
                "appeal_strategist", "letter_writer", "quality_reviewer">>

NumStages == Len(StageOrder)

StageNo(agent) == CHOOSE k \in 1..NumStages : StageOrder[k] = agent

\* the read-set table: the prior stages whose outputs each stage may read
ReadSetTable == <<{}, {1}, {1, 2}, {1, 2, 3}, {1, 4}, {1, 5}>>

Range(f) == {f[i] : i \in DOMAIN f}

\* the prompts, among those built in this run, of the given stage
PromptsOf(k) == {p \in Range(prompts) : p.agent = StageOrder[k]}

\* C1: in every run the six stages execute strictly in the order DocumentAnalysis,
\* PolicyAnalysis, DenialReview, AppealStrategy, LetterDrafting, QualityReview:
\* the i-th stage started is stage i (none skipped, none repeated), a stage
\* starts only when all stages before it have completed, and a run that
\* returns has executed all six.
C1_StrictStageOrder ==
    /\ Len(started) <= NumStages
    /\ \A i \in 1..Len(started) : started[i] = StageOrder[i]
    /\ \A i \in 1..Len(stage_outputs) : stage_outputs[i].agent = StageOrder[i]
    /\ Len(stage_outputs) <= Len(started)
    /\ Len(started) <= Len(stage_outputs) + 1
    /\ pc = "invoke" <=> (Len(started) = Len(stage_outputs) + 1 /\ failed_at = 0)
    /\ pc \in {"returning", "done"} => Len(stage_outputs) = NumStages

C1_Witness ==
    /\ pc = "done"
    /\ started = StageOrder
    /\ Len(stage_outputs) = NumStages

\* C2: when the model invocation of stage k fails, no stage after k starts or
\* produces an output, exactly one error reaches the caller, nothing is
\* returned and analysis_result stays empty.
C2_FailureAbortsRun ==
    /\ raised <= 1
    /\ failed_at # 0 =>
          /\ Len(started) = failed_at
          /\ Len(stage_outputs) = failed_at - 1
          /\ pc \in {"raising", "failed"}
          /\ raised = (IF pc = "failed" THEN 1 ELSE 0)
          /\ result = NoCrewOutput
          /\ analysis_result = None
    /\ pc = "failed" => failed_at # 0
    /\ failed_at = 0 => raised = 0

C2_Witness ==
    /\ caller = "ui"
    /\ pc = "failed"
    /\ failed_at = 3
    /\ raised = 1
    /\ st_error = "Error during analysis"

\* C3: the prior-stage outputs embedded in the prompt of stage k are exactly
\* those of the stages in row k of the read-set table, each once; every one of
\* them is of a lower stage and is an output already produced in this run.
C3_ReadSets ==
    \A i \in 1..Len(prompts) :
        LET p == prompts[i]
            k == StageNo(p.agent)
            reads == {StageNo(p.context[j].agent) : j \in 1..Len(p.context)}
        IN  /\ reads = ReadSetTable[k]
            /\ Len(p.context) = Cardinality(reads)
            /\ \A j \in reads : j < k
            /\ \A j \in 1..Len(p.context) :
                  /\ p.context[j].run = run_no
                  /\ \E n \in 1..Len(stage_outputs) : stage_outputs[n] = p.context[j]

C3_Witness ==
    /\ Len(prompts) = NumStages
    /\ Len(prompts[5].context) = 2
    /\ Len(prompts[4].context) = 3

\* C5: the string of a successful run is the output of stage 6 (Quality Review)
\* of that run and nothing else, both as returned and as stored by the UI.
C5_FinalIsStage6Verbatim ==
    pc = "done" =>
        /\ Len(stage_outputs) = NumStages
        /\ Str(result).agent = StageOrder[NumStages]
        /\ Str(result).run = run_no
        /\ Str(result) = stage_outputs[NumStages]
        /\ caller = "ui" => analysis_result = stage_outputs[NumStages]

C5_Witness ==
    /\ pc = "done"
    /\ caller = "ui"
    /\ analysis_result # None
    /\ Len(stage_outputs) = NumStages

\* the run in progress (or just finished) follows a run that failed
AfterFailedRun == run_no > 1 /\ outcomes[run_no - 1] = "failed"

\* C6: a run that follows a failed run starts with no stage output and at stage 1,
\* executes the stages from stage 1 on, all six if it returns, and neither
\* its prompts nor its outputs nor its result hold an output of an earlier run.
C6_NotResumable ==
    AfterFailedRun =>
        /\ started = <<>> => (stage_outputs = <<>> /\ task_index = 1)
        /\ started # <<>> => started[1] = StageOrder[1]
        /\ \A i \in 1..Len(started) : started[i] = StageOrder[i]
        /\ pc = "done" => started = StageOrder
        /\ \A i \in 1..Len(stage_outputs) : stage_outputs[i].run = run_no
        /\ \A i \in 1..Len(prompts) : \A j \in 1..Len(prompts[i].context) :
               prompts[i].context[j].run = run_no
        /\ pc = "done" => Str(result).run = run_no

C6_Witness ==
    /\ AfterFailedRun
    /\ caller = "ui"
    /\ pc = "done"
    /\ started = StageOrder

\* C7: without a credential the pipeline refuses to start: no stage is ever
\* invoked, and a run that was asked for ends in an error.
C7_RefusesWithoutKey ==
    ~MISTRAL_API_KEY =>
        /\ started = <<>>
        /\ pc \notin {"invoke", "returning", "done"}

\* the policy text embedded in a prompt
PolicyEmbedded(p) == SelectSeq(p.description, LAMBDA s : s.src = "policy_text")

\* C8: the policy text in stage 2's prompt is the first 5000 characters of
\* policy_text, and there is none when policy_text is absent.
C8_PolicyFirst5000 ==
    \A p \in PromptsOf(2) :
        IF Truthy(args.policy_text)
            THEN /\ Len(PolicyEmbedded(p)) = 1
                 /\ PolicyEmbedded(p)[1].val = Slice(args.policy_text, HelperPolicyCap)
            ELSE PolicyEmbedded(p) = <<>>

\* the placeholders of create_letter_writing_task
Placeholder(f) ==
    CASE f = "name" -> "[PATIENT NAME]"
      [] f = "address" -> "[ADDRESS]"
      [] f = "phone" -> "[PHONE]"
      [] f = "email" -> "[EMAIL]"

\* Python d.get(k, default)
Get(d, k, default) == IF k \in DOMAIN d THEN d[k] ELSE default

\* the prompt carries value v for patient field f
CarriesField(p, f, v) ==
    \E i \in 1..Len(p.description) :
        /\ p.description[i].src = "patient_info"
        /\ \E j \in 1..Len(p.description[i].val) : p.description[i].val[j] = <<f, v>>

\* C9: stage 5's prompt carries name, address, phone and email of patient_info,
\* and the field's placeholder for each of the four that patient_info lacks.
C9_PatientInfoOrPlaceholder ==
    \A p \in PromptsOf(5) :
        \A n \in 1..Len(Fields) :
            CarriesField(p, Fields[n],
                         Get(patient_info_or_empty(args), Fields[n], Placeholder(Fields[n])))

\* the raw inputs a prompt embeds
RawSources(p) == {p.description[i].src : i \in 1..Len(p.description)} \ {"literal"}

RawValue(p, src) == SelectSeq(p.description, LAMBDA s : s.src = src)[1].val

\* C10: document_text is embedded, whole, in stage 1's prompt and in no other;
\* policy_text only in stage 2's; the denial-code report only in stage 3's;
\* patient_info only in stage 5's; the prompts of stages 4 and 6 embed no raw input.
C10_RawInputPlacement ==
    /\ \A p \in PromptsOf(1) :
          /\ RawSources(p) = {"document_text"}
          /\ RawValue(p, "document_text") = args.document_text
    /\ \A p \in PromptsOf(2) : RawSources(p) \subseteq {"policy_text"}
    /\ \A p \in PromptsOf(3) :
          /\ RawSources(p) = {"denial_analysis"}
          /\ RawValue(p, "denial_analysis") = crew.context.denial_analysis
    /\ \A p \in PromptsOf(4) : RawSources(p) = {}
    /\ \A p \in PromptsOf(5) : RawSources(p) = {"patient_info"}
    /\ \A p \in PromptsOf(6) : RawSources(p) = {}

C10_Witness ==
    /\ Len(prompts) = NumStages
    /\ args.document_text.len > HelperPolicyCap
    /\ Truthy(args.policy_text)
    /\ args.denial_codes # <<>>
    /\ args.patient_info.given

-----------------------------------------------------------------------------
(* Properties of the knowledge-store load (SpecLoad) *)

\* C4: the cache is initialized exactly once per process: over all
\* interleavings of the threads' first calls the backing file is read at most
\* once, the cache is assigned at most once, and all callers get the same table.
C4_InitializedOnce ==
    /\ file_reads <= 1
    /\ cache_writes <= 1
    /\ \A t, u \in Threads :
          (tpc[t] = "done" /\ tpc[u] = "done") => returned[t] = returned[u]

-----------------------------------------------------------------------------
(* tools/denial_codes.py: the knowledge store and analyze_denial_codes.      *)
(* A code or a category name is the sequence of the pieces of its string:   *)
(* letters, whitespace and caseless chunks such as "-001".  The table is    *)
(* the parsed JSON: a dictionary is a function, and a dictionary whose      *)
(* iteration order matters (the categories) is the sequence of its items.   *)

MaxCodes == 3

PED_001 == <<"P", "E", "D", "-001">>
PA_001 == <<"P", "A", "-001">>
MN_001 == <<"M", "N", "-001">>
DOC_001 == <<"D", "O", "C", "-001">>
UNKNOWN_999 == <<"U", "N", "K", "N", "O", "W", "N", "-999">>
ped_001 == <<"p", "e", "d", "-001">>
PA_001_padded == <<" ", "P", "A", "-001", " ">>

\* the raw codes a claim may carry
RawCodes == {PED_001, PA_001, MN_001, DOC_001, UNKNOWN_999, ped_001, PA_001_padded}

HashSeeds == {1, 2}

\* str.upper() of one piece
UpperPiece(c) ==
    CASE c = "p" -> "P"
      [] c = "e" -> "E"
      [] c = "d" -> "D"
      [] c = "a" -> "A"
      [] OTHER -> c

\* a lookup key that keeps the case of the code
Upper_keep_case(s) == s

\* str.upper()
Upper(s) == [i \in 1..Len(s) |-> UpperPiece(s[i])]

IsSpace(c) == c \in {" ", "\n", "\t"}

RECURSIVE LStrip(_)
LStrip(s) == IF s # <<>> /\ IsSpace(Head(s)) THEN LStrip(Tail(s)) ELSE s

RECURSIVE RStrip(_)
RStrip(s) ==
    IF s # <<>> /\ IsSpace(s[Len(s)]) THEN RStrip(SubSeq(s, 1, Len(s) - 1)) ELSE s

\* str.strip()
Strip(s) == RStrip(LStrip(s))

\* the records of the code table
CodeRecords ==
    (PED_001 :> [description |-> "Pre-existing disease exclusion",
                 success_rate |-> "High",
                 appeal_grounds |-> <<"Disease diagnosed after policy inception",
                                      "Request detailed explanation">>])
    @@ (PA_001 :> [description |-> "Pre-authorization not obtained",
                   success_rate |-> "Medium",
                   appeal_grounds |-> <<"Emergency admission",
                                        "Request detailed explanation">>])
    @@ (MN_001 :> [description |-> "Treatment not medically necessary",
                   success_rate |-> "Low",
                   appeal_grounds |-> <<"Treating doctor's certificate">>])
    @@ (DOC_001 :> [description |-> "Incomplete documentation"])

\* the records of the category table, in the order of the file
CategoryRecords ==
    << <<<<"Pre-Existing Disease">>,
         [codes |-> <<PED_001>>,
          common_appeal_strategies |-> <<"Request detailed explanation",
                                         "Cite moratorium period">>]>>,
       <<<<"Procedural">>,
         [codes |-> <<PA_001, DOC_001>>,
          common_appeal_strategies |-> <<"Emergency admission">>]>>,
       <<<<"Uncategorized">>, [description |-> "no codes listed"]>> >>

\* the tables json.load may return, and the table of a missing file
KnowledgeTables ==
    { [rejection_codes |-> CodeRecords, rejection_categories |-> CategoryRecords],
      [denial_codes |-> CodeRecords, denial_categories |-> CategoryRecords],
      [rejection_codes |-> CodeRecords, denial_categories |-> CategoryRecords],
      [rejection_codes |-> (PED_001 :> CodeRecords[PED_001]),
       rejection_categories |-> <<>>,
       denial_codes |-> CodeRecords, denial_categories |-> CategoryRecords],
      [rejection_codes |-> <<>>, rejection_categories |-> <<>>] }

\* data = load_denial_codes()
load_denial_codes == knowledge

\* Python truthiness of a dictionary or list: empty is falsy
NonEmpty(d) == DOMAIN d # {}

\* Python a or b on dictionaries
Or(a, b) == IF NonEmpty(a) THEN a ELSE b

\* lookup_denial_code: the record of the uppercased, trimmed code, or None
lookup_denial_code(code) ==
    LET data == load_denial_codes
        code_upper == Strip(Upper(code))
        codes_dict == Or(Get(data, "rejection_codes", <<>>),
                         Get(data, "denial_codes", <<>>))
    IN  Get(codes_dict, code_upper, None)

\* the first item of categories, in iteration order, whose codes hold code_upper
RECURSIVE FirstCategory(_, _)
FirstCategory(categories, code_upper) ==
    IF categories = <<>> THEN None
    ELSE LET category_name == Head(categories)[1]
             category_info == Head(categories)[2]
         IN  IF code_upper \in Range(Get(category_info, "codes", <<>>))
                THEN category_info @@ [category_name |-> category_name]
                ELSE FirstCategory(Tail(categories), code_upper)

get_denial_category(code) ==
    LET data == load_denial_codes
        code_upper == Strip(Upper(code))
        categories == Or(Get(data, "rejection_categories", <<>>),
                         Get(data, "denial_categories", <<>>))
    IN  FirstCategory(categories, code_upper)

\* the elements of a set in the order the CHOOSE of the checker fixes
RECURSIVE SetToSeq(_)
SetToSeq(S) ==
    IF S = {} THEN <<>>
    ELSE LET x == CHOOSE y \in S : TRUE IN <<x>> \o SetToSeq(S \ {x})

Reverse(s) == [i \in 1..Len(s) |-> s[Len(s) + 1 - i]]

\* list(set(xs)) without the removal of duplicates
ListSet_keep_duplicates(xs) == xs

\* list(set(xs)): the distinct elements of xs, in an order that depends on
\* the hash seed of the process and not on the order of xs
ListSet(xs) ==
    IF hash_seed = 1 THEN SetToSeq(Range(xs)) ELSE Reverse(SetToSeq(Range(xs)))

\* Python truthiness of an Optional[dict]
Bool(d) == d # None /\ NonEmpty(d)

get_appeal_strategies(code) ==
    LET code_info == lookup_denial_code(code)
        code_strategies ==
            IF Bool(code_info) THEN Get(code_info, "appeal_grounds", <<>>) ELSE <<>>
        category_info == get_denial_category(code)
        category_strategies ==
            IF Bool(category_info)
               THEN Get(category_info, "common_appeal_strategies", <<>>) ELSE <<>>
    IN  ListSet(code_strategies \o category_strategies)

\* what the loop of analyze_denial_codes has accumulated before its first pass
LoopStart ==
    [codes_found |-> <<>>, codes_unknown |-> <<>>, categories |-> <<>>,
     success_rates |-> <<>>, all_strategies |-> <<>>]

\* one pass of the loop, with the else branch left out
LoopBody_drop_unknown(acc, code) ==
    LET code_info == lookup_denial_code(code)
        category == get_denial_category(code)
    IN  IF Bool(code_info)
           THEN [acc EXCEPT
                   !.codes_found = Append(@, [code |-> code, info |-> code_info]),
                   !.success_rates = Append(@, Get(code_info, "success_rate", "Unknown")),
                   !.categories = IF Bool(category)
                                     THEN Append(@, category.category_name) ELSE @,
                   !.all_strategies = @ \o get_appeal_strategies(code)]
           ELSE acc

\* one pass of the loop of analyze_denial_codes
LoopBody(acc, code) ==
    LET code_info == lookup_denial_code(code)
        category == get_denial_category(code)
    IN  IF Bool(code_info)
           THEN [acc EXCEPT
                   !.codes_found = Append(@, [code |-> code, info |-> code_info]),
                   !.success_rates = Append(@, Get(code_info, "success_rate", "Unknown")),
                   !.categories = IF Bool(category)
                                     THEN Append(@, category.category_name) ELSE @,
                   !.all_strategies = @ \o get_appeal_strategies(code)]
           ELSE [acc EXCEPT !.codes_unknown = Append(@, code)]

\* for code in codes: ...
RECURSIVE Loop(_, _)
Loop(codes, n) ==
    IF n = 0 THEN LoopStart ELSE LoopBody(Loop(codes, n - 1), codes[n])

Count(xs, x) == Len(SelectSeq(xs, LAMBDA y : y = x))

\* the most frequent element, the last encountered among those equally frequent
most_common_last_tied(xs) ==
    LET i == CHOOSE i \in 1..Len(xs) :
                 /\ \A j \in 1..Len(xs) : Count(xs, xs[j]) <= Count(xs, xs[i])
                 /\ \A j \in (i + 1)..Len(xs) : Count(xs, xs[j]) < Count(xs, xs[i])
                                                  \/ xs[j] = xs[i]
                 /\ \A j \in (i + 1)..Len(xs) : xs[j] # xs[i]
    IN  xs[i]

\* Counter(xs).most_common(1)[0][0]: the most frequent element, the first
\* encountered among those equally frequent
most_common(xs) ==
    LET i == CHOOSE i \in 1..Len(xs) :
                 /\ \A j \in 1..Len(xs) : Count(xs, xs[j]) <= Count(xs, xs[i])
                 /\ \A j \in 1..(i - 1) : Count(xs, xs[j]) < Count(xs, xs[i])
    IN  xs[i]

\* the primary category, with "Unknown" where the code leaves None
primary_category_default(categories) ==
    IF categories # <<>> THEN most_common(categories) ELSE <<"Unknown">>

\* analysis["primary_category"]
primary_category(categories) ==
    IF categories # <<>> THEN most_common(categories) ELSE None

\* the likelihood with the Medium test before the High test
overall_appeal_likelihood_medium_first(success_rates) ==
    IF success_rates # <<>>
       THEN IF "Medium" \in Range(success_rates) THEN "Moderate"
            ELSE IF "High" \in Range(success_rates) THEN "Good"
            ELSE "Challenging"
       ELSE "Unknown"

\* analysis["overall_appeal_likelihood"]
overall_appeal_likelihood(success_rates) ==
    IF success_rates # <<>>
       THEN IF "High" \in Range(success_rates) THEN "Good"
            ELSE IF "Medium" \in Range(success_rates) THEN "Moderate"
            ELSE "Challenging"
       ELSE "Unknown"

\* the summary built from the last found code
summary_last_code(codes_found, likelihood, all_strategies) ==
    IF codes_found # <<>>
       THEN LET primary == codes_found[Len(codes_found)]
            IN  <<Lit("Primary denial reason: "),
                  Emb("description", primary.info.description),
                  Lit(". Appeal likelihood: "),
                  Emb("overall_appeal_likelihood", likelihood),
                  Lit(". Found "),
                  Emb("len(all_strategies)", Len(all_strategies)),
                  Lit(" potential appeal strategies.")>>
       ELSE <<>>

\* analysis["summary"]: the f-string as the sequence of its segments, "" as <<>>
summary(codes_found, likelihood, all_strategies) ==
    IF codes_found # <<>>
       THEN LET primary == codes_found[1]
            IN  <<Lit("Primary denial reason: "),
                  Emb("description", primary.info.description),
                  Lit(". Appeal likelihood: "),
                  Emb("overall_appeal_likelihood", likelihood),
                  Lit(". Found "),
                  Emb("len(all_strategies)", Len(all_strategies)),
                  Lit(" potential appeal strategies.")>>
       ELSE <<>>

analyze_denial_codes(codes) ==
    LET acc == Loop(codes, Len(codes))
        likelihood == overall_appeal_likelihood(acc.success_rates)
        all_strategies == ListSet(acc.all_strategies)
    IN  [codes_found |-> acc.codes_found,
         codes_unknown |-> acc.codes_unknown,
         primary_category |-> primary_category(acc.categories),
         all_strategies |-> all_strategies,
         overall_appeal_likelihood |-> likelihood,
         summary |-> summary(acc.codes_found, likelihood, all_strategies)]

\* the lists of at most n raw codes
CodeListsUpTo(n) == UNION {[1..k -> RawCodes] : k \in 0..n}

\* a caller passes a list of codes to analyze_denial_codes and gets the analysis
Analyze ==
    /\ analysis = <<>>
    /\ analysis' = analyze_denial_codes(codes_in)
    /\ UNCHANGED <<hash_seed, knowledge, codes_in>>
    /\ UNCHANGED <<pipeVars, loadVars, extVars, splitVars, uiVars>>

InitAnalyze ==
    /\ PipelineIdle
    /\ LoadIdle
    /\ hash_seed \in HashSeeds
    /\ knowledge \in KnowledgeTables
    /\ codes_in \in CodeListsUpTo(MaxCodes)
    /\ analysis = <<>>
    /\ ExtractIdle
    /\ SplitIdle
    /\ UIIdle

NextAnalyze == Analyze

SpecAnalyze == InitAnalyze /\ [][NextAnalyze]_vars

-----------------------------------------------------------------------------
(* Properties of analyze_denial_codes (SpecAnalyze) *)

\* the knowledge store has a record for the code
Known(code) == lookup_denial_code(code) # None

\* the codes of codes_found, in order
FoundCodes(a) == [i \in 1..Len(a.codes_found) |-> a.codes_found[i].code]

\* the known codes of the input, in input order
KnownInput == SelectSeq(codes_in, Known)

\* C12: codes_found holds exactly the input codes that have a record and
\* codes_unknown exactly those that have none, both in input order, and the
\* likelihood, primary category, strategies and summary are those of the
\* analysis of the known codes alone.
C12_UnknownCodesSetAside ==
    analysis # <<>> =>
        /\ FoundCodes(analysis) = KnownInput
        /\ analysis.codes_unknown = SelectSeq(codes_in, LAMBDA c : ~Known(c))
        /\ LET alone == analyze_denial_codes(KnownInput)
           IN  /\ alone.codes_unknown = <<>>
               /\ analysis.codes_found = alone.codes_found
               /\ analysis.overall_appeal_likelihood = alone.overall_appeal_likelihood
               /\ analysis.primary_category = alone.primary_category
               /\ analysis.all_strategies = alone.all_strategies
               /\ analysis.summary = alone.summary

C12_Witness ==
    /\ analysis # <<>>
    /\ Len(codes_in) = 3
    /\ ~Known(codes_in[1])
    /\ Known(codes_in[2])
    /\ Known(codes_in[3])
    /\ codes_in[2] # codes_in[3]
    /\ analysis.codes_unknown = <<codes_in[1]>>

\* the success-rate tags of the found codes
FoundTags(a) ==
    {Get(a.codes_found[i].info, "success_rate", "Unknown") : i \in 1..Len(a.codes_found)}

\* C13: the likelihood is Good when a found code is tagged High, else Moderate
\* when one is tagged Medium, else Challenging when a code was found, else
\* Unknown; [PED-001 (High), PA-001 (Medium), UNKNOWN-999] gives Good with
\* codes_unknown = [UNKNOWN-999].
C13_LikelihoodLadder ==
    analysis # <<>> =>
        /\ analysis.overall_appeal_likelihood =
              IF "High" \in FoundTags(analysis) THEN "Good"
              ELSE IF "Medium" \in FoundTags(analysis) THEN "Moderate"
              ELSE IF analysis.codes_found # <<>> THEN "Challenging"
              ELSE "Unknown"
        /\ ( /\ codes_in = <<PED_001, PA_001, UNKNOWN_999>>
             /\ Known(PED_001) /\ lookup_denial_code(PED_001).success_rate = "High"
             /\ Known(PA_001) /\ lookup_denial_code(PA_001).success_rate = "Medium"
             /\ ~Known(UNKNOWN_999) )
           => /\ analysis.overall_appeal_likelihood = "Good"
              /\ analysis.codes_unknown = <<UNKNOWN_999>>

C13_Witness ==
    /\ analysis # <<>>
    /\ codes_in = <<PED_001, PA_001, UNKNOWN_999>>
    /\ FoundTags(analysis) = {"High", "Medium"}
    /\ analysis.overall_appeal_likelihood = "Good"

\* C14: when no input code has a record, the analysis is the initial one:
\* likelihood Unknown, empty summary, no strategy, no primary category, no
\* found code.
C14_NothingFound ==
    (analysis # <<>> /\ \A i \in 1..Len(codes_in) : ~Known(codes_in[i])) =>
        /\ analysis.overall_appeal_likelihood = "Unknown"
        /\ analysis.summary = <<>>
        /\ analysis.all_strategies = <<>>
        /\ analysis.primary_category = None
        /\ analysis.codes_found = <<>>

C14_Witness ==
    /\ analysis # <<>>
    /\ codes_in = <<UNKNOWN_999, UNKNOWN_999>>
    /\ Known(PED_001)
    /\ analysis.codes_unknown = codes_in
    /\ analysis.codes_found = <<>>

\* the orderings of a list
Orderings(xs) ==
    {[i \in 1..Len(xs) |-> xs[p[i]]] :
        p \in {q \in [1..Len(xs) -> 1..Len(xs)] : Range(q) = 1..Len(xs)}}

\* the appeal grounds of a found code and the common strategies of its category
StrategiesOf(found) ==
    Range(Get(found.info, "appeal_grounds", <<>>))
    \cup (IF get_denial_category(found.code) = None THEN {}
          ELSE Range(Get(get_denial_category(found.code),
                         "common_appeal_strategies", <<>>)))

\* C15: all_strategies holds no strategy twice, holds exactly the appeal
\* grounds of the found codes and the common strategies of their categories,
\* and every ordering of the input gives the same set of strategies and the
\* same likelihood.
C15_StrategiesAreASet ==
    analysis # <<>> =>
        /\ \A i, j \in 1..Len(analysis.all_strategies) :
              analysis.all_strategies[i] = analysis.all_strategies[j] => i = j
        /\ Range(analysis.all_strategies) =
              UNION {StrategiesOf(analysis.codes_found[i]) :
                        i \in 1..Len(analysis.codes_found)}
        /\ \A reordered \in Orderings(codes_in) :
              LET other == analyze_denial_codes(reordered)
              IN  /\ Range(other.all_strategies) = Range(analysis.all_strategies)
                  /\ other.overall_appeal_likelihood = analysis.overall_appeal_likelihood

C15_Witness ==
    /\ analysis # <<>>
    /\ Len(analysis.codes_found) = 3
    /\ Cardinality(Range(codes_in)) = 3
    /\ Len(Loop(codes_in, Len(codes_in)).all_strategies) > Len(analysis.all_strategies)
    /\ Len(analysis.all_strategies) > 3

\* C16: the summary is non-empty exactly when a code was found, and then
\* carries the description of the first input code that has a record, the
\* likelihood of the analysis and the number of distinct strategies.
C16_SummaryOfFirstFound ==
    analysis # <<>> =>
        /\ analysis.summary # <<>> <=> analysis.codes_found # <<>>
        /\ KnownInput # <<>> =>
              /\ Len(analysis.summary) = 7
              /\ analysis.summary[2].val = lookup_denial_code(KnownInput[1]).description
              /\ analysis.summary[4].val = analysis.overall_appeal_likelihood
              /\ analysis.summary[6].val = Cardinality(Range(analysis.all_strategies))

C16_Witness ==
    /\ analysis # <<>>
    /\ Len(codes_in) = 3
    /\ ~Known(codes_in[1])
    /\ Len(analysis.codes_found) = 2
    /\ analysis.codes_found[1].info.description # analysis.codes_found[2].info.description
    /\ analysis.summary[2].val = analysis.codes_found[1].info.description

-----------------------------------------------------------------------------
(* tools/pdf_parser.py: extract_claim_info, its model path and its regex     *)
(* fallback.  A Python value that json.loads can produce is a record         *)
(* (t, v): its type and its content as a sequence of strings.  The content   *)
(* of a model response is the sequence of its pieces: prose, whitespace,     *)
(* code fences and JSON documents, a document being named by its text.       *)

JNull == [t |-> "null", v |-> <<>>]
JStr(s) == [t |-> "str", v |-> <<s>>]
JNum(digits) == [t |-> "num", v |-> <<digits>>]
JList(xs) == [t |-> "list", v |-> xs]

\* Python truthiness of a value: None, "", 0 and [] are falsy
TruthyValue(x) ==
    CASE x.t = "null" -> FALSE
      [] x.t = "str" -> x.v # <<"">>
      [] x.t = "num" -> x.v # <<"0">>
      [] x.t = "list" -> x.v # <<>>

SchemaKeys ==
    {"claim_number", "member_id", "policy_number", "service_date", "admission_date",
     "discharge_date", "denial_date", "provider", "hospital_name", "insurer_name",
     "tpa_name", "patient_name", "billed_amount", "allowed_amount", "denied_amount",
     "claim_amount", "denial_codes", "denial_reason"}

\* info = {"claim_number": None, ..., "denial_codes": [], "denial_reason": None}
DefaultInfo == [k \in SchemaKeys |-> IF k = "denial_codes" THEN JList(<<>>) ELSE JNull]

\* the objects the extraction model may answer with
FullObject ==
    [claim_number |-> JStr("CLM/2023/0456"), policy_number |-> JStr("POL-778"),
     patient_name |-> JStr("Asha Rao"), insurer_name |-> JStr("Star Health"),
     hospital_name |-> JStr("Apollo Hospital"), tpa_name |-> JNull,
     admission_date |-> JStr("12/05/2023"), discharge_date |-> JStr("18/05/2023"),
     claim_amount |-> JNum("245000"), denial_reason |-> JStr("Pre-existing disease"),
     denial_codes |-> JList(<<"PED-001", "PA-001">>)]
SparseObject ==
    [claim_number |-> JStr(""), policy_number |-> JNull, claim_amount |-> JNum("0"),
     denial_codes |-> JList(<<>>), denial_reason |-> JStr("Not covered"),
     confidence |-> JStr("low"), notes |-> JNull]
NullObject == [claim_number |-> JNull, denial_codes |-> JNull]
ScalarCodesObject == [admission_date |-> JStr("01/02/2024"), denial_codes |-> JStr("MN-001")]
EmptyObject == <<>>

\* json.loads of the documents a response may hold: an object is a dictionary,
\* any other value is kept as a value
JsonObjects ==
    [d \in {"{full}", "{sparse}", "{nulls}", "{scalar codes}", "{}"} |->
        CASE d = "{full}" -> FullObject
          [] d = "{sparse}" -> SparseObject
          [] d = "{nulls}" -> NullObject
          [] d = "{scalar codes}" -> ScalarCodesObject
          [] d = "{}" -> EmptyObject]
JsonValues ==
    [d \in {"[\"PED-001\"]", "\"PED-001\"", "null", "42"} |->
        CASE d = "[\"PED-001\"]" -> JList(<<"PED-001">>)
          [] d = "\"PED-001\"" -> JStr("PED-001")
          [] d = "null" -> JNull
          [] d = "42" -> JNum("42")]

JsonDocuments == DOMAIN JsonObjects \cup DOMAIN JsonValues

\* the least index of xs whose element satisfies P, 0 when there is none
IndexOf(xs, P(_)) ==
    IF \E i \in 1..Len(xs) : P(xs[i])
       THEN CHOOSE i \in 1..Len(xs) : P(xs[i]) /\ \A j \in 1..(i - 1) : ~P(xs[j])
       ELSE 0

\* s.split(marker)[0], for a marker that is one piece
UpTo(s, IsMarker(_)) ==
    IF IndexOf(s, IsMarker) = 0 THEN s ELSE SubSeq(s, 1, IndexOf(s, IsMarker) - 1)

\* what follows the first marker of s
After(s, IsMarker(_)) == SubSeq(s, IndexOf(s, IsMarker) + 1, Len(s))

\* the fence tests of the cleanup (a fence of three backquotes is written ~~~):
\* a json fence contains a plain fence
IsJsonFence(piece) == piece = "~~~json"
IsFence(piece) == piece \in {"~~~", "~~~json"}

\* the response text taken out of its markdown code block, if it has one
CleanUp(response_text) ==
    IF IndexOf(response_text, IsJsonFence) # 0
       THEN Strip(UpTo(After(response_text, IsJsonFence), IsFence))
    ELSE IF IndexOf(response_text, IsFence) # 0
       THEN Strip(UpTo(After(response_text, IsFence), IsFence))
    ELSE response_text

\* json.loads(response_text): one document and nothing else, or JSONDecodeError
json_loads(response_text) ==
    IF Len(response_text) = 1 /\ response_text[1] \in JsonDocuments
       THEN [raises |-> "", is_dict |-> response_text[1] \in DOMAIN JsonObjects,
             value |-> IF response_text[1] \in DOMAIN JsonObjects
                          THEN JsonObjects[response_text[1]]
                          ELSE JsonValues[response_text[1]]]
       ELSE [raises |-> "JSONDecodeError", is_dict |-> FALSE, value |-> <<>>]

\* if extracted.get("denial_codes") and not isinstance(..., list): wrap it
EnsureList(extracted) ==
    IF /\ "denial_codes" \in DOMAIN extracted
       /\ TruthyValue(extracted["denial_codes"])
       /\ extracted["denial_codes"].t # "list"
       THEN [extracted EXCEPT !["denial_codes"] = JList(@.v)]
       ELSE extracted

\* what a called function hands to its caller
Returns(value) == [raises |-> "", value |-> value]
Raises(exception) == [raises |-> exception, value |-> <<>>]

\* the try block of extract_claim_info_with_ai: invoke, clean up, parse
Try(behaviour) ==
    IF behaviour.llm = "invoke_error" THEN Raises("Exception")
    ELSE LET parsed == json_loads(CleanUp(Strip(behaviour.content)))
         IN  IF parsed.raises # "" THEN Raises("JSONDecodeError")
             ELSE IF ~parsed.is_dict THEN Raises("AttributeError")
             ELSE Returns(EnsureList(parsed.value))

extract_claim_info_with_ai(text, behaviour) ==
    IF ~behaviour.AI_EXTRACTION_AVAILABLE THEN Returns(<<>>)
    ELSE IF ~behaviour.api_key THEN Returns(<<>>)
    ELSE IF behaviour.llm = "constructor_error" THEN Raises("Exception")
    ELSE IF Try(behaviour).raises # "" THEN Returns(<<>>)
    ELSE Try(behaviour)

\* A document text is the sequence of its tokens; tokens are separated by
\* blanks, and a line break is the token "\n".

\* re.IGNORECASE and .lower(): two spellings are equal up to case when they
\* fold to the same spelling, the one the code writes
CaseFold(tok) ==
    CASE tok \in {"Claim", "CLAIM"} -> "claim"
      [] tok = "No" -> "no"
      [] tok = "No." -> "no."
      [] tok = "Number" -> "number"
      [] tok = "Policy" -> "policy"
      [] tok = "Admission" -> "admission"
      [] tok = "Admitted" -> "admitted"
      [] tok = "Discharge" -> "discharge"
      [] tok = "Date" -> "date"
      [] tok = "Total" -> "total"
      [] tok = "Amount" -> "amount"
      [] tok = "Rs." -> "rs."
      [] tok = "star health" -> "Star Health"
      [] tok = "icici lombard" -> "ICICI Lombard"
      [] tok = "APOLLO" -> "Apollo"
      [] tok = "ped-001" -> "PED-001"
      [] OTHER -> tok

DateTokens == {"12/05/2023", "18/05/2023", "03/01/2024", "01/02/2024"}
WordTokens ==
    {"Claim", "CLAIM", "claim", "No", "Number", "Policy", "Admission", "Admitted",
     "admitted", "on", "Discharge", "Date", "Total", "Amount", "pending", "Dear",
     "Sir", "your", "is", "rejected", "Hospital", "Ward", "Chennai", "Apollo", "APOLLO",
     "Fortis", "Star Health", "star health", "icici lombard"}

\* the longest prefix of a token that matches the class of the capture group,
\* "" when the token does not start with a character of the class
Capture(class, tok) ==
    CASE class = "date" -> IF tok \in DateTokens THEN tok ELSE ""
      [] class = "id" ->
            IF tok \in {":", ".", ",", "\n", "#"} THEN ""
            ELSE IF tok = "2,45,000" THEN "2"
            ELSE IF tok = "Rs." THEN "Rs"
            ELSE IF tok = "No." THEN "No"
            ELSE IF tok \in {"Star Health", "star health", "icici lombard"}
                    THEN CASE tok = "Star Health" -> "Star"
                           [] tok = "star health" -> "star"
                           [] tok = "icici lombard" -> "icici"
            ELSE tok
      [] class = "digits" ->
            IF tok = "2,45,000" THEN tok
            ELSE IF tok \in {"12/05/2023", "12"} THEN "12"
            ELSE IF tok = "18/05/2023" THEN "18"
            ELSE IF tok = "03/01/2024" THEN "03"
            ELSE IF tok = "01/02/2024" THEN "01"
            ELSE ""

\* the patterns of extract_claim_info_regex: a keyword, a second word that is
\* required or optional, an optional ":" or ".", an optional currency, and
\* the capture group
patterns ==
    { [field |-> "claim_number", heads |-> {"claim"},
       mids |-> {"number", "#", "no", "no.", "id", "ref"}, mid_required |-> TRUE,
       currency |-> {}, class |-> "id"],
      [field |-> "policy_number", heads |-> {"policy"},
       mids |-> {"number", "#", "no", "no."}, mid_required |-> TRUE,
       currency |-> {}, class |-> "id"],
      [field |-> "admission_date", heads |-> {"admission", "admitted"},
       mids |-> {"date", "on"}, mid_required |-> FALSE,
       currency |-> {}, class |-> "date"],
      [field |-> "discharge_date", heads |-> {"discharge"},
       mids |-> {"date", "on"}, mid_required |-> FALSE,
       currency |-> {}, class |-> "date"],
      [field |-> "claim_amount", heads |-> {"claim", "total"},
       mids |-> {"amount"}, mid_required |-> TRUE,
       currency |-> {"rs", "rs.", "INR"}, class |-> "digits"] }

\* \s*: the index of the first token at or after i that is not a line break
RECURSIVE SkipSpace(_, _)
SkipSpace(text, i) ==
    IF i <= Len(text) /\ IsSpace(text[i]) THEN SkipSpace(text, i + 1) ELSE i

\* an optional element: the index after the token at i when it is one of S
Opt(text, i, S) == IF i <= Len(text) /\ CaseFold(text[i]) \in S THEN i + 1 ELSE i

\* the capture group of the pattern matched at token i, "" when it does not match
MatchAt(text, i, pattern) ==
    LET mid == SkipSpace(text, i + 1)
        after_mid == Opt(text, mid, pattern.mids)
        after_sep == Opt(text, SkipSpace(text, after_mid), {":", "."})
        after_currency == Opt(text, SkipSpace(text, after_sep), pattern.currency)
        group == SkipSpace(text, after_currency)
    IN  IF /\ CaseFold(text[i]) \in pattern.heads
           /\ (pattern.mid_required => after_mid > mid)
           /\ group <= Len(text)
           THEN Capture(pattern.class, text[group])
           ELSE ""

\* re.search(pattern, text, re.IGNORECASE): the group of the leftmost match
re_search(pattern, text) ==
    LET Matches(i) == MatchAt(text, i, pattern) # ""
        hits == {i \in 1..Len(text) : Matches(i)}
    IN  IF hits = {} THEN ""
        ELSE MatchAt(text, CHOOSE i \in hits : \A j \in hits : i <= j, pattern)

insurers ==
    <<"Star Health", "ICICI Lombard", "HDFC ERGO", "Bajaj Allianz", "Max Bupa",
      "Care Health", "Niva Bupa", "Aditya Birla", "Tata AIG", "SBI General",
      "New India", "United India", "Oriental", "National Insurance">>

hospitals ==
    <<"Apollo", "Fortis", "Max", "Medanta", "Narayana", "Manipal", "AIIMS",
      "Kokilaben", "Lilavati", "Hinduja", "Sir Ganga Ram", "BLK", "Artemis">>

\* name.lower() in text.lower()
Occurs(name, text) == \E i \in 1..Len(text) : CaseFold(text[i]) = name

\* the first name of the gazetteer, in its order, that occurs in the text
FirstOccurring(names, text) ==
    LET k == IndexOf(names, LAMBDA name : Occurs(name, text))
    IN  IF k = 0 THEN "" ELSE names[k]

HospitalNameCap == 50

\* [A-Za-z\s,]+ : the tokens from i on that are words, line breaks or commas
RECURSIVE Letters(_, _)
Letters(text, i) ==
    IF i <= Len(text) /\ (text[i] \in WordTokens \/ IsSpace(text[i]) \/ text[i] = ",")
       THEN Letters(text, i + 1) ELSE i

\* [^,\n]* : the tokens from i on up to the next comma or line break
RECURSIVE RestOfLine(_, _)
RestOfLine(text, i) ==
    IF i <= Len(text) /\ text[i] # "," /\ text[i] # "\n"
       THEN RestOfLine(text, i + 1) ELSE i

\* the hospital with its context: the match of the context pattern at the
\* first occurrence that something follows, stripped and cut to 50 characters
\* (the value is the text of the tokens v, up to its first upto characters)
HospitalName(hospital, text) ==
    LET at == IndexOf(text, LAMBDA tok : CaseFold(tok) = hospital)
        end == RestOfLine(text, Letters(text, at + 1))
    IN  IF at < Len(text)
           THEN [t |-> "str", v |-> Strip(SubSeq(text, at, end - 1)),
                 upto |-> HospitalNameCap]
           ELSE JStr(hospital)

\* the tokens that have the shape of a denial code with a listed prefix
IsDenialCode(tok) == CaseFold(tok) \in {"PED-001", "PA-001", "MN-001", "DOC-001", "WP-030"}

\* re.findall(code_pattern, text, re.IGNORECASE)
re_findall_codes(text) == SelectSeq(text, IsDenialCode)

extract_claim_info_regex(text) ==
    [k \in SchemaKeys |->
        IF \E p \in patterns : p.field = k
           THEN LET p == CHOOSE p \in patterns : p.field = k
                IN  IF re_search(p, text) # "" THEN JStr(re_search(p, text)) ELSE JNull
        ELSE IF k = "insurer_name"
           THEN IF FirstOccurring(insurers, text) # ""
                   THEN JStr(FirstOccurring(insurers, text)) ELSE JNull
        ELSE IF k = "hospital_name"
           THEN IF FirstOccurring(hospitals, text) # ""
                   THEN HospitalName(FirstOccurring(hospitals, text), text) ELSE JNull
        ELSE IF k = "denial_codes"
           THEN IF re_findall_codes(text) # <<>>
                   THEN JList(ListSet(re_findall_codes(text))) ELSE JList(<<>>)
        ELSE JNull]

\* the merge that copies every pair of the model's object
Merge_every_pair(info, ai_info) == ai_info @@ info

\* for key, value in ai_info.items(): if value and key in info: info[key] = value
Merge(info, ai_info) ==
    [key \in DOMAIN info |->
        IF key \in DOMAIN ai_info /\ TruthyValue(ai_info[key])
           THEN ai_info[key] ELSE info[key]]

\* a fallback that returns the defaults without reading the text
Fallback_defaults(text) == Returns(DefaultInfo)

\* return extract_claim_info_regex(text)
Fallback(text) == Returns(extract_claim_info_regex(text))

\* an exception of the model path that reaches the caller
OnAIError_propagate(exception, text) == Raises(exception)

\* except Exception as e: print(...), then the fallback
OnAIError(exception, text) == Fallback(text)

\* a starting record that already holds the pattern-matched values
InitialInfo_from_patterns(text) == extract_claim_info_regex(text)

\* info = {...}: the record the model's values are merged into
InitialInfo(text) == DefaultInfo

extract_claim_info(text, behaviour) ==
    IF behaviour.AI_EXTRACTION_AVAILABLE
       THEN LET ai_info == extract_claim_info_with_ai(text, behaviour)
            IN  IF ai_info.raises # "" THEN OnAIError(ai_info.raises, text)
                ELSE IF NonEmpty(ai_info.value)
                        THEN Returns(Merge(InitialInfo(text), ai_info.value))
                ELSE Fallback(text)
       ELSE Fallback(text)

\* the document texts
AdmissionText == <<"Admission", "Date", ":", "12/05/2023">>
LetterText ==
    <<"Star Health", "\n", "Claim", "No.", ":", "CLM/2023/0456", "\n",
      "Policy", "Number", "POL-778", "\n", "admitted", "on", "03/01/2024", "\n",
      "Discharge", "Date", ":", "18/05/2023", "\n",
      "Total", "Amount", ":", "Rs.", "2,45,000", "\n",
      "Apollo", "Hospital", ",", "Chennai", "\n",
      "PED-001", "ped-001", "PA-001", "PED-001", "UNKNOWN-999">>
ProseText == <<"Dear", "Sir", ",", "your", "claim", "is", "rejected", ".">>
TrickyText ==
    <<"CLAIM", "Amount", ":", "12/05/2023", "Policy", "No", "Admission", "APOLLO">>
TwoDatesText ==
    <<"Admission", "Date", "pending", "\n", "Admitted", ":", "01/02/2024", "\n",
      "Admission", "Date", ":", "12/05/2023", "\n", "Fortis", "Ward", "12", ",",
      "Chennai">>
InsurersText == <<"icici lombard", "star health", "MN-001">>

DocumentTexts ==
    {<<>>, AdmissionText, LetterText, ProseText, TrickyText, TwoDatesText, InsurersText}

\* the contents a model response may have
Responses ==
    {<<d>> : d \in JsonDocuments}
    \cup {<<"\n", d, "\n">> : d \in JsonDocuments}
    \cup {<<"~~~", "\n", d, "\n", "~~~">> : d \in JsonDocuments}
    \cup {<<"Here is the JSON:", "\n", "~~~json", "\n", d, "\n", "~~~", "\n",
            "Let me know.">> : d \in JsonDocuments}
    \cup {<<>>, <<"I could not read the document.">>, <<"{full}", "Hope this helps.">>,
          <<"~~~json", "{full}">>, <<"{full}", "~~~">>}

\* the behaviours of the model path: the import failed, the key is not set,
\* the client or the invocation raises, or the model answers
AIBehaviours ==
    {[AI_EXTRACTION_AVAILABLE |-> FALSE, api_key |-> TRUE, llm |-> "ok", content |-> <<>>],
     [AI_EXTRACTION_AVAILABLE |-> TRUE, api_key |-> FALSE, llm |-> "ok", content |-> <<>>],
     [AI_EXTRACTION_AVAILABLE |-> TRUE, api_key |-> TRUE, llm |-> "constructor_error",
      content |-> <<>>],
     [AI_EXTRACTION_AVAILABLE |-> TRUE, api_key |-> TRUE, llm |-> "invoke_error",
      content |-> <<>>]}
    \cup {[AI_EXTRACTION_AVAILABLE |-> TRUE, api_key |-> TRUE, llm |-> "ok",
           content |-> c] : c \in Responses}

\* a caller passes a text to extract_claim_info
ExtractClaimInfo ==
    /\ claim_info = <<>>
    /\ ~extract_raised
    /\ LET outcome == extract_claim_info(ext_text, ai)
       IN  /\ extract_raised' = (outcome.raises # "")
           /\ claim_info' = outcome.value
    /\ UNCHANGED <<ext_text, ai>>
    /\ UNCHANGED <<pipeVars, loadVars, anaVars, splitVars, uiVars>>

InitExtract ==
    /\ PipelineIdle
    /\ LoadIdle
    /\ hash_seed \in HashSeeds
    /\ knowledge = <<>>
    /\ codes_in = <<>>
    /\ analysis = <<>>
    /\ ext_text \in DocumentTexts
    /\ ai \in AIBehaviours
    /\ extract_raised = FALSE
    /\ claim_info = <<>>
    /\ SplitIdle
    /\ UIIdle

NextExtract == ExtractClaimInfo

SpecExtract == InitExtract /\ [][NextExtract]_vars

-----------------------------------------------------------------------------
(* Properties of extract_claim_info (SpecExtract) *)

\* the object the model path hands to extract_claim_info in this call
ai_info_of_call == extract_claim_info_with_ai(ext_text, ai)

\* C17: for every text and every behaviour of the model path the call returns
\* and does not raise; the record has exactly the 18 schema keys, a field
\* without a value is null, and denial_codes is a list.
C17_ExtractIsTotal ==
    /\ ~extract_raised
    /\ claim_info # <<>> =>
          /\ DOMAIN claim_info = SchemaKeys
          /\ Cardinality(DOMAIN claim_info) = 18
          /\ claim_info["denial_codes"].t = "list"
          /\ \A k \in SchemaKeys \ {"denial_codes"} :
                claim_info[k] = JNull \/ TruthyValue(claim_info[k])

C17_Witness ==
    /\ claim_info # <<>>
    /\ ai.llm = "constructor_error"
    /\ ext_text = LetterText
    /\ claim_info["member_id"] = JNull
    /\ claim_info["denial_codes"].v # <<>>

\* C18: when the model path fails (not available, no key, an error, or an
\* answer that is no JSON object) the record is the one the fallback builds
\* from the same text and nothing is raised; with no model the text
\* "Admission Date: 12/05/2023" gives admission_date = "12/05/2023".
C18_FallbackOnFailure ==
    (claim_info # <<>> /\ (ai_info_of_call.raises # "" \/ ~NonEmpty(ai_info_of_call.value)))
        => /\ claim_info = extract_claim_info_regex(ext_text)
           /\ ~extract_raised
           /\ (ext_text = AdmissionText /\ ~ai.AI_EXTRACTION_AVAILABLE)
                 => claim_info["admission_date"] = JStr("12/05/2023")

C18_Witness ==
    /\ claim_info # <<>>
    /\ ext_text = AdmissionText
    /\ ~ai.AI_EXTRACTION_AVAILABLE
    /\ claim_info["admission_date"] = JStr("12/05/2023")
    /\ claim_info # DefaultInfo

-----------------------------------------------------------------------------
(* app.py: separate_letter_and_next_steps.  The final text is the sequence   *)
(* of its pieces; the pieces of a marker are such that a marker that is a    *)
(* substring of another is a contiguous part of its pieces.                  *)

next_steps_markers ==
    << <<"**", "Next Steps", ":", "**">>,
       <<"**", "Next Steps", "**">>,
       <<"#", "#", " ", "Next Steps">>,
       <<"#", "#", "#", " ", "Next Steps">>,
       <<"**", "Final Notes", ":", "**">>,
       <<"**", "Final Notes", "**">>,
       <<"#", "#", " ", "Final Notes">> >>

\* the positions of s at which marker occurs
Occurrences(s, marker) ==
    {p \in 1..Len(s) : /\ p + Len(marker) - 1 <= Len(s)
                       /\ SubSeq(s, p, p + Len(marker) - 1) = marker}

\* marker in s
Contains(s, marker) == Occurrences(s, marker) # {}

\* s.rsplit(marker, 1): the split at the last occurrence
split_once_at_last(s, marker) ==
    LET p == CHOOSE p \in Occurrences(s, marker) : \A q \in Occurrences(s, marker) : q <= p
    IN  <<SubSeq(s, 1, p - 1), SubSeq(s, p + Len(marker), Len(s))>>

\* s.split(marker, 1), for a marker that occurs in s
split_once(s, marker) ==
    LET p == CHOOSE p \in Occurrences(s, marker) : \A q \in Occurrences(s, marker) : p <= q
    IN  <<SubSeq(s, 1, p - 1), SubSeq(s, p + Len(marker), Len(s))>>

separate_letter_and_next_steps(text) ==
    LET k == IndexOf(next_steps_markers, LAMBDA marker : Contains(text, marker))
    IN  IF k = 0 THEN <<text, <<>>>>
        ELSE LET marker == next_steps_markers[k]
                 parts == split_once(text, marker)
             IN  <<Strip(parts[1]), marker \o parts[2]>>

\* the final texts: a letter body, then a heading or none, then what follows
Bodies ==
    {<<>>, <<"...letter body...", "\n">>, <<"\n", "Dear Sir,", "\n", "Yours,", " ", "\n">>,
     <<"Dear Sir,", " ">>}
Headings ==
    Range(next_steps_markers) \cup {<<>>, <<"Next Steps">>, <<"**", "Summary", "**">>}
Endings ==
    {<<>>, <<"\n", "1. Do X">>,
     <<"\n", "1. Do X", "\n", "**", "Next Steps", ":", "**", "\n", "2. Do Y", "\n",
       "**", "Final Notes", "**">>,
     <<"\n", "1. Do X", "\n", "**", "Final Notes", "**", "\n", "Keep copies", "\n",
       "#", "#", " ", "Next Steps", "\n", "3. Do Z">>}

FinalTexts == {b \o h \o e : b \in Bodies, h \in Headings, e \in Endings}

\* render_step_3 passes the analysis result to separate_letter_and_next_steps
SeparateLetterAndNextSteps ==
    /\ separated = <<>>
    /\ separated' = separate_letter_and_next_steps(full_result)
    /\ UNCHANGED full_result
    /\ UNCHANGED <<pipeVars, loadVars, anaVars, extVars, uiVars>>

InitSplit ==
    /\ PipelineIdle
    /\ LoadIdle
    /\ AnalyzeIdle
    /\ ExtractIdle
    /\ full_result \in FinalTexts
    /\ separated = <<>>
    /\ UIIdle

NextSplit == SeparateLetterAndNextSteps

SpecSplit == InitSplit /\ [][NextSplit]_vars

-----------------------------------------------------------------------------
(* Properties of separate_letter_and_next_steps (SpecSplit) *)

\* the markers that occur in the final text, by their place in the list
OccurringMarkers == {k \in 1..Len(next_steps_markers) :
                        Contains(full_result, next_steps_markers[k])}

\* the place in the text of the first occurrence of the first marker, in list
\* order, that occurs
SplitPoint ==
    LET k == CHOOSE k \in OccurringMarkers : \A j \in OccurringMarkers : k <= j
        at == Occurrences(full_result, next_steps_markers[k])
    IN  CHOOSE p \in at : \A q \in at : p <= q

\* C20: the text is split at the first occurrence of the first marker, in
\* list order, that occurs in it: the guidance is the text from the marker to
\* the end, the letter body the text before it, stripped; with no marker the
\* body is the whole text and the guidance is empty.  The text
\* "...letter body...\n**Next Steps:**\n1. Do X" gives the body
\* "...letter body..." and a guidance that starts with "**Next Steps:**".
C20_SplitAtFirstMarker ==
    separated # <<>> =>
        /\ IF OccurringMarkers = {}
              THEN separated = <<full_result, <<>>>>
              ELSE /\ separated[2] = SubSeq(full_result, SplitPoint, Len(full_result))
                   /\ separated[1] = Strip(SubSeq(full_result, 1, SplitPoint - 1))
        /\ full_result = <<"...letter body...", "\n", "**", "Next Steps", ":", "**",
                           "\n", "1. Do X">>
              => /\ separated[1] = <<"...letter body...">>
                 /\ SubSeq(separated[2], 1, 4) = <<"**", "Next Steps", ":", "**">>

C20_Witness ==
    /\ separated # <<>>
    /\ Cardinality(OccurringMarkers) >= 2
    /\ Cardinality(Occurrences(full_result, <<"**", "Next Steps", ":", "**">>)) = 2
    /\ separated[1] # SubSeq(full_result, 1, SplitPoint - 1)
    /\ separated[1] # <<>>
    /\ Len(separated[2]) > 4

-----------------------------------------------------------------------------
(* Properties of concurrent runs (SpecLoad): each thread is a pipeline run   *)
(* whose analyze_denial_codes makes the run's first lookup.                  *)

\* C11: concurrent runs share no mutable state: once the knowledge table has
\* been loaded, no step of any run assigns the cache the other runs read.
C11_CacheReadOnlyAfterLoad ==
    [][denial_codes_cache # 0 => denial_codes_cache' = denial_codes_cache]_vars

-----------------------------------------------------------------------------
(* Further properties of the analysis pipeline (Spec) *)

\* C21: for every denial-code list, the empty one included, the prompt of
\* stage 3 embeds the formatted report of the analysis of the run's list, the
\* one computed when the crew was built, before stage 1 started.
C21_ReportOfEveryList ==
    /\ crew # NoCrew => crew.context.denial_analysis = Report(args.denial_codes)
    /\ \A p \in PromptsOf(3) :
          RawValue(p, "denial_analysis") = Report(args.denial_codes)

\* the stages of the current run whose model invocation has returned
CompletedStages ==
    Len(started) - (IF pc = "invoke" THEN 1 ELSE 0) - (IF failed_at # 0 THEN 1 ELSE 0)

\* C22: stage_outputs holds one entry per completed stage, entry k being the
\* output of stage k; during a run a step either leaves it alone or, when a
\* stage completes, appends exactly one entry, and never changes or removes
\* an entry.
C22_OneOutputPerCompletedStage ==
    /\ [](/\ Len(stage_outputs) = CompletedStages
          /\ \A k \in 1..Len(stage_outputs) :
                /\ stage_outputs[k].agent = StageOrder[k]
                /\ stage_outputs[k].run = run_no)
    /\ [][run_no' = run_no =>
            \/ stage_outputs' = stage_outputs
            \/ /\ pc = "invoke"
               /\ Len(stage_outputs') = Len(stage_outputs) + 1
               /\ SubSeq(stage_outputs', 1, Len(stage_outputs)) = stage_outputs]_vars

C22_Witness ==
    /\ run_no = 2
    /\ pc = "invoke"
    /\ Len(stage_outputs) = 4
    /\ outcomes = <<"failed">>

-----------------------------------------------------------------------------
(* Further properties of the knowledge store and the analyzer (SpecAnalyze) *)

\* the category names of the input codes that have a record and a category,
\* in input order
InputCategories ==
    LET categorized == SelectSeq(KnownInput, LAMBDA c : get_denial_category(c) # None)
    IN  [i \in 1..Len(categorized) |-> get_denial_category(categorized[i]).category_name]

\* the place of the first occurrence of x in xs
FirstIndex(xs, x) == CHOOSE i \in 1..Len(xs) : xs[i] = x /\ \A j \in 1..(i - 1) : xs[j] # x

\* C23: primary_category is a category of a found code that no other category
\* outnumbers, and every other category that occurs as often was first
\* encountered later in the input; it is null when no found code has a
\* category.
C23_StableMode ==
    analysis # <<>> =>
        IF InputCategories = <<>>
           THEN analysis.primary_category = None
           ELSE /\ analysis.primary_category \in Range(InputCategories)
                /\ \A c \in Range(InputCategories) :
                      \/ Count(InputCategories, c)
                            < Count(InputCategories, analysis.primary_category)
                      \/ /\ Count(InputCategories, c)
                               = Count(InputCategories, analysis.primary_category)
                         /\ FirstIndex(InputCategories, analysis.primary_category)
                               <= FirstIndex(InputCategories, c)

C23_Witness ==
    /\ analysis # <<>>
    /\ Len(codes_in) = 3
    /\ Len(InputCategories) = 2
    /\ InputCategories[1] # InputCategories[2]
    /\ InputCategories[1] = <<"Procedural">>
    /\ analysis.primary_category = <<"Procedural">>

\* spellings of codes: the raw codes and further mixtures of case and blanks
CodeSpellings ==
    RawCodes \cup {<<"\t", "p", "a", "-001", "\n">>, <<" ", "P", "e", "D", "-001">>,
                   <<"M", "N", " ", "-001">>, <<" ", " ">>, <<>>}

\* C24: lookup_denial_code and get_denial_category give, for every spelling of
\* a code, the result they give for its uppercased, trimmed form; so the
\* lower-case and the padded spelling of a code get the record and the
\* category of the code.
C24_LookupIgnoresCaseAndBlanks ==
    knowledge # <<>> =>
        /\ \A c \in CodeSpellings :
              /\ lookup_denial_code(c) = lookup_denial_code(Strip(Upper(c)))
              /\ get_denial_category(c) = get_denial_category(Strip(Upper(c)))
        /\ lookup_denial_code(ped_001) = lookup_denial_code(PED_001)
        /\ get_denial_category(ped_001) = get_denial_category(PED_001)
        /\ lookup_denial_code(PA_001_padded) = lookup_denial_code(PA_001)
        /\ get_denial_category(PA_001_padded) = get_denial_category(PA_001)
        /\ lookup_denial_code(<<"\t", "p", "a", "-001", "\n">>) = lookup_denial_code(PA_001)

C24_Witness ==
    /\ analysis # <<>>
    /\ codes_in = <<ped_001, PA_001_padded, PED_001>>
    /\ Len(analysis.codes_found) = 3
    /\ analysis.codes_found[1].info = analysis.codes_found[3].info
    /\ get_denial_category(PA_001_padded) # None
    /\ lookup_denial_code(<<"M", "N", " ", "-001">>) = None

\* the table under the current key when the loaded data has that key, the
\* table under the legacy key only when it has not
PreferCurrent(current, legacy, empty) ==
    IF current \in DOMAIN knowledge THEN knowledge[current]
    ELSE Get(knowledge, legacy, empty)

\* C25: for the code table and for the category table, a lookup reads the
\* entries under the current key whenever the loaded data has that key, and
\* the entries under the legacy key only when the current key is absent.
C25_CurrentKeyWhenPresent ==
    knowledge # <<>> =>
        \A c \in RawCodes :
            /\ lookup_denial_code(c)
                  = Get(PreferCurrent("rejection_codes", "denial_codes", <<>>),
                        Strip(Upper(c)), None)
            /\ get_denial_category(c)
                  = FirstCategory(PreferCurrent("rejection_categories",
                                                "denial_categories", <<>>),
                                  Strip(Upper(c)))

-----------------------------------------------------------------------------
(* Further properties of extract_claim_info (SpecExtract) *)

\* the values a key of the record may hold on the model path: its default, or
\* the value the model gave for it
ModelPathValues(k) ==
    {DefaultInfo[k]}
    \cup (IF k \in DOMAIN ai_info_of_call.value
             THEN {ai_info_of_call.value[k]} ELSE {})

\* C26: the record is either the default schema overlaid with values of the
\* model only (whenever the model path returned a non-empty object, even one
\* whose values are all null), or exactly the record of the pattern-matching
\* fallback; no record holds model values next to pattern-matched values.
C26_PathsAreExclusive ==
    claim_info # <<>> =>
        IF ai_info_of_call.raises = "" /\ NonEmpty(ai_info_of_call.value)
           THEN /\ DOMAIN claim_info = SchemaKeys
                /\ \A k \in SchemaKeys : claim_info[k] \in ModelPathValues(k)
                /\ (\A k \in DOMAIN ai_info_of_call.value :
                        ~TruthyValue(ai_info_of_call.value[k]))
                      => claim_info = DefaultInfo
           ELSE claim_info = extract_claim_info_regex(ext_text)

\* the model answers with an object of nulls for a letter in which the
\* patterns find values: the record is the default one
C26_Witness ==
    /\ claim_info = DefaultInfo
    /\ ai.content = <<"{nulls}">>
    /\ ext_text = LetterText
    /\ extract_claim_info_regex(ext_text)["claim_number"] # JNull
    /\ extract_claim_info_regex(ext_text)["denial_codes"] # JList(<<>>)

-----------------------------------------------------------------------------
(* Further properties of separate_letter_and_next_steps (SpecSplit) *)

HeadingNextSteps3 == next_steps_markers[4]

\* the text holds the heading "### Next Steps" and no marker listed before
\* "### Next Steps" other than as a part of that heading
OnlyHeadingNextSteps3 ==
    /\ Contains(full_result, HeadingNextSteps3)
    /\ ~Contains(full_result, next_steps_markers[1])
    /\ ~Contains(full_result, next_steps_markers[2])
    /\ \A p \in Occurrences(full_result, next_steps_markers[3]) :
          p - 1 \in Occurrences(full_result, HeadingNextSteps3)

\* C27: when the final text contains the heading "### Next Steps" and none of
\* the markers listed before it, the guidance begins with "### Next Steps" and
\* the letter body is the text before the heading, stripped, with no
\* character of the heading left in it.
C27_HeadingNextSteps3 ==
    (separated # <<>> /\ OnlyHeadingNextSteps3) =>
        LET p == CHOOSE p \in Occurrences(full_result, HeadingNextSteps3) :
                    \A q \in Occurrences(full_result, HeadingNextSteps3) : p <= q
        IN  /\ Len(separated[2]) >= Len(HeadingNextSteps3)
            /\ SubSeq(separated[2], 1, Len(HeadingNextSteps3)) = HeadingNextSteps3
            /\ separated[1] = Strip(SubSeq(full_result, 1, p - 1))

-----------------------------------------------------------------------------
(* app.py: the three-step web UI.  Streamlit runs main() from top to bottom  *)
(* on every interaction of the user and after every st.rerun(); an action    *)
(* is one script run.  A text is the sequence of its pieces, a denial code   *)
(* of the session is one piece.  The claim fields of the step-2 form are     *)
(* left as the form offers them.                                             *)

\* Body applied to the value of an expression that is computed once
Let(value, Body(_)) == CHOOSE y \in {Body(x) : x \in {value}} : TRUE

\* d[k] = v, and del d[k] for the keys that are set
Put(d, k, v) == (k :> v) @@ d
Without(d, keys) == [x \in DOMAIN d \ keys |-> d[x]]

\* a or b
OrValue(a, b) == IF TruthyValue(a) THEN a ELSE b

\* an uploader without a file, and the files and texts of the user
NoFile == [name |-> "", text |-> <<>>]
RejectionText == <<"Claim", "rejected", "under", "PED-001", "and", "PA-001">>
PdfFiles ==
    {[name |-> "rejection.pdf", text |-> RejectionText],
     [name |-> "insurers.pdf", text |-> InsurersText],
     [name |-> "scan.pdf", text |-> <<>>]}
PolicyFiles == {[name |-> "policy.pdf", text |-> <<"Policy", "wording">>]}
PastedTexts == {<<>>, RejectionText, ProseText}
\* what the user may type into the denial-codes field: nothing, a blank, a code
CodeEntries == {<<>>, <<" ">>, <<"MN-001">>}

\* the ways the model path of the extraction behaves during a script run
NoModel ==
    [AI_EXTRACTION_AVAILABLE |-> FALSE, api_key |-> TRUE, llm |-> "ok", content |-> <<>>]
UIBehaviours ==
    {NoModel,
     [AI_EXTRACTION_AVAILABLE |-> TRUE, api_key |-> TRUE, llm |-> "ok",
      content |-> <<"{nulls}">>]}

\* the text of a PDF file; "" for a file without a text layer
extract_text_from_pdf(file) == file.text

SessionDefaults ==
    [step |-> 1, document_text |-> <<>>, claim_info |-> <<>>, denial_codes |-> <<>>,
     analysis_result |-> JNull, patient_info |-> <<>>, auto_populated |-> FALSE,
     show_auto_fill_toast |-> FALSE]

\* if key not in st.session_state: st.session_state[key] = default
initialize_session_state(ss) == ss @@ SessionDefaults

\* what a part of the script leaves behind: the session state, whether
\* st.rerun() ended the run, and the arguments of the pipeline call
Done(ss, rerun, call) == [ss |-> ss, rerun |-> rerun, call |-> call]

HomeKeys ==
    {"document_text", "claim_info", "denial_codes", "analysis_result", "patient_info",
     "policy_text", "auto_populated", "show_auto_fill_toast"}

\* the button "Go to Home" of the sidebar
GoHome(ss) == Done(Put(Without(ss, HomeKeys), "step", 1), TRUE, <<>>)

\* step 1 stores a text: the text, the extracted fields, the denial codes if
\* the extraction found any, and the two flags
StoreDocument(ss, text, behaviour) ==
    Let(extract_claim_info(text, behaviour).value, LAMBDA info :
        LET s1 == Put(Put(ss, "document_text", text), "claim_info", info)
            s2 == IF TruthyValue(Get(info, "denial_codes", JNull))
                     THEN Put(s1, "denial_codes", info["denial_codes"].v)
                     ELSE s1
        IN  Put(Put(s2, "auto_populated", TRUE), "show_auto_fill_toast", TRUE))

\* if denial_file: ... if text: ...
DenialUploader(ss, denial_file, behaviour) ==
    IF denial_file # NoFile /\ extract_text_from_pdf(denial_file) # <<>>
       THEN StoreDocument(ss, extract_text_from_pdf(denial_file), behaviour)
       ELSE ss

\* if policy_file: ... if policy_text: ...
PolicyUploader(ss, policy_file) ==
    IF policy_file # NoFile /\ extract_text_from_pdf(policy_file) # <<>>
       THEN Put(ss, "policy_text", extract_text_from_pdf(policy_file))
       ELSE ss

\* if manual_text and manual_text != st.session_state.get("last_manual_text", ""): ...
TextArea(ss, pasted, behaviour) ==
    IF pasted # <<>> /\ pasted # Get(ss, "last_manual_text", <<>>)
       THEN StoreDocument(Put(ss, "last_manual_text", pasted), pasted, behaviour)
       ELSE ss

\* if st.session_state.document_text: if st.button("Continue to Step 2"): ...
ContinueButton(ss, clicked) ==
    IF ss["document_text"] # <<>> /\ clicked = "Continue to Step 2"
       THEN Done(Put(ss, "step", 2), TRUE, <<>>)
       ELSE Done(ss, FALSE, <<>>)

render_step_1(ss, denial_file, policy_file, pasted, behaviour, clicked) ==
    Let(DenialUploader(ss, denial_file, behaviour), LAMBDA s1 :
    Let(PolicyUploader(s1, policy_file), LAMBDA s2 :
    Let(TextArea(s2, pasted, behaviour), LAMBDA s3 :
        ContinueButton(s3, clicked))))

\* [c.strip() for c in denial_codes_str.split(",") if c.strip()]
SplitCodes(items) == SelectSeq(items, LAMBDA c : c \notin {"", " "})

\* the denial-codes field of step 2: the codes of the session unless the user
\* typed an entry; a non-empty string replaces the codes of the session
DenialCodesField(ss, edited, entry) ==
    LET denial_codes_str == IF edited THEN entry ELSE ss["denial_codes"]
    IN  IF denial_codes_str # <<>>
           THEN Put(ss, "denial_codes", SplitCodes(denial_codes_str))
           ELSE ss

\* st.session_state.patient_info = {...}
PatientForm(ss) ==
    LET info == ss["claim_info"]
        patient == ss["patient_info"]
    IN  Put(ss, "patient_info",
            [name |-> OrValue(Get(info, "patient_name", JNull),
                              Get(patient, "name", JStr(""))),
             address |-> Get(patient, "address", JStr("")),
             phone |-> Get(patient, "phone", JStr("")),
             email |-> Get(patient, "email", JStr(""))])

\* st.session_state.claim_info.update({...}) with the values of the form
ClaimForm(ss) ==
    LET info == ss["claim_info"]
        form ==
            [claim_number |-> Get(info, "claim_number", JStr("")),
             policy_number |-> OrValue(Get(info, "policy_number", JNull),
                                       Get(info, "member_id", JStr(""))),
             insurer_name |-> Get(info, "insurer_name", JStr("")),
             hospital_name |-> Get(info, "hospital_name", JStr("")),
             tpa_name |-> Get(info, "tpa_name", JStr("")),
             admission_date |-> OrValue(Get(info, "admission_date", JNull),
                                        Get(info, "service_date", JStr(""))),
             discharge_date |-> Get(info, "discharge_date", JStr("")),
             claim_amount |-> OrValue(Get(info, "claim_amount", JNull),
                                      Get(info, "billed_amount", JStr(""))),
             denial_reason |-> Get(info, "denial_reason", JStr(""))]
    IN  Put(ss, "claim_info", form @@ info)

\* if not st.session_state.document_text: st.error(...) else: step = 3, rerun
AnalyzeButton(ss) ==
    IF ss["document_text"] = <<>>
       THEN Done(ss, FALSE, <<>>)
       ELSE Done(Put(ss, "step", 3), TRUE, <<>>)

\* if st.session_state.get("show_auto_fill_toast", False): ... = False
AutoFillToast(ss) ==
    IF Get(ss, "show_auto_fill_toast", FALSE)
       THEN Put(ss, "show_auto_fill_toast", FALSE) ELSE ss

render_step_2(ss, edited, entry, clicked) ==
    Let(AutoFillToast(ss), LAMBDA s1 :
    Let(DenialCodesField(s1, edited, entry), LAMBDA s2 :
    Let(PatientForm(s2), LAMBDA s3 :
    Let(ClaimForm(s3), LAMBDA s4 :
        IF clicked = "Back to Step 1" THEN Done(Put(s4, "step", 1), TRUE, <<>>)
        ELSE IF clicked = "Analyze" THEN AnalyzeButton(s4)
        ELSE Done(s4, FALSE, <<>>)))))

\* the arguments render_step_3 passes to run_claim_analysis
CallArguments(ss) ==
    [document_text |-> ss["document_text"], denial_codes |-> ss["denial_codes"],
     policy_text |-> Get(ss, "policy_text", <<>>), patient_info |-> ss["patient_info"]]

\* a step 3 that runs the pipeline on every script run
ResultIsMissing_always(ss) == TRUE

\* if st.session_state.analysis_result is None
ResultIsMissing(ss) == ss["analysis_result"] = JNull

render_step_3(ss, outcome, clicked) ==
    IF ResultIsMissing(ss)
       THEN IF outcome = "returned"
               THEN Done(Put(ss, "analysis_result", JStr("appeal letter")), TRUE,
                         CallArguments(ss))
            ELSE IF clicked = "Back to Step 2"
                    THEN Done(Put(ss, "step", 2), TRUE, CallArguments(ss))
            ELSE Done(ss, FALSE, CallArguments(ss))
       ELSE Done(ss, FALSE, <<>>)

\* main(): the session defaults, the sidebar, the key check, the current step
main(ss0, denial_file, policy_file, pasted, edited, entry, clicked, behaviour, outcome) ==
    Let(initialize_session_state(ss0), LAMBDA ss :
        IF clicked = "Go to Home" THEN GoHome(ss)
        ELSE IF ~MISTRAL_API_KEY THEN Done(ss, FALSE, <<>>)
        ELSE IF ss["step"] = 1
                THEN render_step_1(ss, denial_file, policy_file, pasted, behaviour, clicked)
        ELSE IF ss["step"] = 2 THEN render_step_2(ss, edited, entry, clicked)
        ELSE IF ss["step"] = 3 THEN render_step_3(ss, outcome, clicked)
        ELSE Done(ss, FALSE, <<>>))

\* the run reaches the widgets of step 1
RendersStep1(ss0, clicked) ==
    /\ clicked # "Go to Home"
    /\ MISTRAL_API_KEY
    /\ initialize_session_state(ss0)["step"] = 1

\* the run reaches the pipeline call of step 3
CallsPipeline(ss0, clicked) ==
    /\ clicked # "Go to Home"
    /\ MISTRAL_API_KEY
    /\ initialize_session_state(ss0)["step"] = 3
    /\ ResultIsMissing(initialize_session_state(ss0))

\* One script run.  The widgets of step 1 keep their values while a run
\* renders them and lose them after a run that does not; a run that
\* st.rerun() ends in the sidebar keeps or drops them, depending on the
\* version of Streamlit.
ScriptRun(event, denial_file, policy_file, pasted, edited, entry, clicked) ==
    \E behaviour \in IF RendersStep1(session_state, clicked)
                          THEN UIBehaviours ELSE {NoModel},
       outcome \in IF CallsPipeline(session_state, clicked)
                      THEN {"returned", "raised"} ELSE {"none"},
       kept \in IF clicked = "Go to Home" THEN BOOLEAN ELSE {FALSE} :
      \E done \in {main(session_state, denial_file, policy_file, pasted, edited, entry,
                         clicked, behaviour, outcome)} :
        LET keep == \/ RendersStep1(session_state, clicked)
                    \/ clicked = "Go to Home" /\ kept
        IN  /\ session_state' = done.ss
            /\ rerun_requested' = done.rerun
            /\ pipeline_call' = done.call
            /\ ui_event' = event
            /\ denial_upload' = IF keep THEN denial_file ELSE NoFile
            /\ policy_upload' = IF keep THEN policy_file ELSE NoFile
            /\ manual_text' = IF keep THEN pasted ELSE <<>>
            /\ UNCHANGED <<pipeVars, loadVars, anaVars, extVars, splitVars>>

\* the page of step n is on the screen and no script run is due
PageOfStep(n) ==
    /\ ~rerun_requested
    /\ MISTRAL_API_KEY
    /\ session_state["step"] = n

\* the page is opened, st.rerun() was called, or the user asks for a rerun
Rerun ==
    /\ rerun_requested \/ session_state # <<>>
    /\ ScriptRun("rerun", denial_upload, policy_upload, manual_text, FALSE, <<>>, "")

GoToHome ==
    /\ ~rerun_requested
    /\ ScriptRun("Go to Home", denial_upload, policy_upload, manual_text, FALSE, <<>>,
                 "Go to Home")

UploadDenialLetter ==
    /\ PageOfStep(1)
    /\ \E file \in PdfFiles \ {denial_upload} :
          ScriptRun("upload", file, policy_upload, manual_text, FALSE, <<>>, "")

RemoveDenialLetter ==
    /\ PageOfStep(1)
    /\ denial_upload # NoFile
    /\ ScriptRun("remove upload", NoFile, policy_upload, manual_text, FALSE, <<>>, "")

UploadPolicy ==
    /\ PageOfStep(1)
    /\ \E file \in PolicyFiles \ {policy_upload} :
          ScriptRun("upload policy", denial_upload, file, manual_text, FALSE, <<>>, "")

\* the user changes the text of the text area and submits it
PasteText ==
    /\ PageOfStep(1)
    /\ \E text \in PastedTexts \ {manual_text} :
          ScriptRun("paste", denial_upload, policy_upload, text, FALSE, <<>>, "")

Continue ==
    /\ PageOfStep(1)
    /\ session_state["document_text"] # <<>>
    /\ ScriptRun("Continue", denial_upload, policy_upload, manual_text, FALSE, <<>>,
                 "Continue to Step 2")

EditDenialCodes ==
    /\ PageOfStep(2)
    /\ \E entry \in CodeEntries :
          ScriptRun("edit codes", denial_upload, policy_upload, manual_text, TRUE, entry, "")

BackToStep1 ==
    /\ PageOfStep(2)
    /\ ScriptRun("Back", denial_upload, policy_upload, manual_text, FALSE, <<>>,
                 "Back to Step 1")

AnalyzeAndGenerate ==
    /\ PageOfStep(2)
    /\ ScriptRun("Analyze", denial_upload, policy_upload, manual_text, FALSE, <<>>,
                 "Analyze")

\* the button under the error message of step 3
BackToStep2 ==
    /\ PageOfStep(3)
    /\ session_state["analysis_result"] = JNull
    /\ ScriptRun("Back", denial_upload, policy_upload, manual_text, FALSE, <<>>,
                 "Back to Step 2")

InitUI ==
    /\ MISTRAL_API_KEY \in BOOLEAN
    /\ caller = "ui"
    /\ analysis_result = None
    /\ st_error = ""
    /\ run_no = 0
    /\ pc = "idle"
    /\ args = NoArgs
    /\ crew = NoCrew
    /\ task_index = 0
    /\ started = <<>>
    /\ prompts = <<>>
    /\ stage_outputs = <<>>
    /\ failed_at = 0
    /\ raised = 0
    /\ result = NoCrewOutput
    /\ outcomes = <<>>
    /\ LoadIdle
    /\ hash_seed \in HashSeeds
    /\ knowledge = <<>>
    /\ codes_in = <<>>
    /\ analysis = <<>>
    /\ ExtractIdle
    /\ SplitIdle
    /\ session_state = <<>>
    /\ denial_upload = NoFile
    /\ policy_upload = NoFile
    /\ manual_text = <<>>
    /\ rerun_requested = TRUE
    /\ ui_event = ""
    /\ pipeline_call = <<>>

NextUI ==
    \/ Rerun
    \/ GoToHome
    \/ UploadDenialLetter
    \/ RemoveDenialLetter
    \/ UploadPolicy
    \/ PasteText
    \/ Continue
    \/ EditDenialCodes
    \/ BackToStep1
    \/ AnalyzeAndGenerate
    \/ BackToStep2

SpecUI == InitUI /\ [][NextUI]_vars

\* the session has the keys of initialize_session_state after every script run
UITypeOK ==
    session_state # <<>> => "step" \in DOMAIN session_state

-----------------------------------------------------------------------------
(* Properties of the web UI (SpecUI) *)

\* the script run of this step called run_claim_analysis
PipelineInvoked == pipeline_call' # <<>> /\ vars' # vars

\* C28: over every sequence of script runs (upload, paste, Continue, Back,
\* Analyze, Go to Home, rerun) step stays in {1, 2, 3}; run_claim_analysis is
\* called only by a run that starts with step = 3, a non-empty document_text
\* and an empty analysis_result, with that document; once analysis_result is
\* set no run calls it until "Go to Home" has cleared the result.
C28_PipelineOnlyAtStep3 ==
    /\ [](session_state # <<>> => session_state["step"] \in {1, 2, 3})
    /\ [](pipeline_call # <<>> => pipeline_call.document_text # <<>>)
    /\ [][PipelineInvoked =>
            /\ session_state # <<>>
            /\ session_state["step"] = 3
            /\ Get(session_state, "document_text", <<>>) # <<>>
            /\ Get(session_state, "analysis_result", JNull) = JNull
            /\ pipeline_call'.document_text = session_state["document_text"]]_vars
    /\ [][Get(session_state, "analysis_result", JNull) # JNull
            => pipeline_call' = <<>>]_vars

\* the pipeline has returned a letter for an uploaded document, in a session
\* in which a text was pasted before and a policy was uploaded
C28_Witness ==
    /\ pipeline_call # <<>>
    /\ session_state["step"] = 3
    /\ session_state["analysis_result"] = JStr("appeal letter")
    /\ pipeline_call.document_text = InsurersText
    /\ pipeline_call.policy_text # <<>>
    /\ "last_manual_text" \in DOMAIN session_state
    /\ session_state["last_manual_text"] = RejectionText

\* C29: at step 1, whenever the user submits a non-empty pasted text, the
\* script run leaves document_text equal to that text and the page offers
\* "Continue to Step 2"; also when "Go to Home" has reset the session and the
\* same text is pasted again.
C29_PastedTextBecomesDocument ==
    [][(ui_event' = "paste" /\ manual_text' # <<>>)
          => /\ session_state'["document_text"] = manual_text'
             /\ session_state'["step"] = 1
             /\ ~rerun_requested']_vars

\* the denial codes extracted from the document of the session
ExtractedCodes(ss) == ss["claim_info"]["denial_codes"].v

\* the denial codes an extraction can find in a text: the model path of the
\* UI runs finds none or is not available
CodesIn(text) == Range(extract_claim_info_regex(text)["denial_codes"].v)

\* the script run of this step stored a new document at step 1
NewDocumentStored ==
    /\ ui_event' \in {"upload", "paste"}
    /\ session_state'["document_text"] # <<>>
    /\ session_state'["document_text"] # session_state["document_text"]

\* C30: after step 1 has processed a new document (an uploaded PDF or a pasted
\* text) the denial_codes of the session are exactly the codes extracted from
\* that document; a code of a document processed earlier does not stay in the
\* session and is not passed to the pipeline with the new document: a code
\* passed with a document was found in that document or typed by the user.
C30_CodesOfTheCurrentDocument ==
    /\ [][NewDocumentStored
            => session_state'["denial_codes"] = ExtractedCodes(session_state')]_vars
    /\ [](pipeline_call # <<>> =>
            \A i \in 1..Len(pipeline_call.denial_codes) :
                \/ pipeline_call.denial_codes[i] \in CodesIn(pipeline_call.document_text)
                \/ \E entry \in CodeEntries : pipeline_call.denial_codes[i] \in Range(entry))

====
